---- MODULE Spec2Model ----
(***************************************************************************)
(* A model of @openconductor/mcp-sdk: the metering pipeline (Telemetry),  *)
(* the invocation wrapper (wrapTool), the billing gate (requirePayment,   *)
(* checkBilling, deductCredits) and the SDK configuration they read.      *)
(*                                                                         *)
(* The runtime is a single-threaded event loop: one action of the model   *)
(* is one synchronous run of code, from where a callback or a call starts *)
(* to the next await of something that is not yet settled (a fetch, the   *)
(* wrapped handler, a timer).                                              *)
(***************************************************************************)
EXTENDS Integers, Sequences, FiniteSets, TLC

VARIABLES
    \* ---- config/index.ts
    globalConfig,     \* the module-level ResolvedConfig
    envApiKey,        \* process.env.OPENCONDUCTOR_API_KEY, or Undefined
    \* ---- telemetry/index.ts
    globalTelemetry,  \* "null", "Telemetry" or "DemoTelemetry"
    batchSize,        \* Telemetry.config.batchSize
    buffer,           \* Telemetry.buffer: the ToolMetrics not yet sent
    flushTimer,       \* TRUE while the setInterval of the constructor is active
    inflight,         \* the flush() calls suspended at `await fetch`, oldest first
    delivered,        \* the metrics of every batch the collector answered 2xx
    nextId,           \* number of ToolMetric objects created so far
    rejection,        \* <<[who, sink]>>: whose flush() rejected last, and where
                      \* the rejection went; << >> before the first one
    shutdownAt,       \* <<nextId>> at the first call of shutdown(), << >> before it
    replacedTimers,   \* intervals of Telemetry instances no longer the global
                      \* one that are still active
    \* ---- server/index.ts (wrapTool)
    wrapOptions,      \* the WrapToolOptions the tool was wrapped with
    calls,            \* one record per invocation of the wrapped tool
    \* ---- payment/index.ts
    paymentConfig,    \* the module-level PaymentConfig, or NoPaymentConfig (null)
    requirement,      \* the PaymentRequirement the tool was gated with
    gate,             \* one record per invocation of the gated tool
    \* ---- the process
    exited,           \* TRUE once process.exit(0) has been called
    \* ---- the library functions that keep no module state
    sanitized,        \* sanitizeInput: the input and what was logged for it
    thrown,           \* errors/index.ts: an error object and its toJSON()
    health,           \* createHealthCheck: the checks and the run in progress
    validation        \* validateInput: the call in progress or finished

cfgVars  == <<globalConfig, envApiKey>>
telVars  == <<globalTelemetry, batchSize, buffer, flushTimer, inflight, delivered, nextId,
              rejection, shutdownAt,
                   replacedTimers>>
wrapVars == <<wrapOptions, calls>>
payVars  == <<paymentConfig, requirement, gate>>
libVars  == <<sanitized, thrown, health, validation>>
vars     == <<globalConfig, envApiKey, globalTelemetry, batchSize, buffer, flushTimer,
              inflight, delivered, nextId, rejection, shutdownAt, replacedTimers, wrapOptions,
              calls, paymentConfig, requirement, gate, exited, sanitized, thrown,
              health, validation>>

\* ------------------------------------------------------------------ bounds
MaxEvents    == 3     \* ToolMetric objects created in one run
MaxBatchSize == 3     \* largest configured batchSize
MaxCalls     == 2     \* invocations of the wrapped tool
MaxGateCalls == 2     \* invocations of the gated tool
MaxEntries   == 2     \* entries of a tool's input object
MaxChecks    == 3     \* checks configured in a health check
MaxReplaced  == 2     \* Telemetry instances replaced with their interval active

\* JavaScript's undefined and null
Undefined == "undefined"
Null      == "null"

\* Remove the i-th element of a sequence.
RemoveAt(s, i) == SubSeq(s, 1, i - 1) \o SubSeq(s, i + 1, Len(s))

\* The elements of a sequence.
Range(s) == {s[i] : i \in 1..Len(s)}

\* ================================================================ errors
ERR_TOOL_NOT_FOUND    == -32001
ERR_TOOL_EXECUTION    == -32002
ERR_RESOURCE_NOT_FOUND == -32003
ERR_AUTHENTICATION    == -32004
ERR_AUTHORIZATION     == -32005
ERR_RATE_LIMIT        == -32006
ERR_TIMEOUT           == -32007
ERR_DEPENDENCY        == -32009
ERR_INVALID_PARAMS    == -32602
ERR_CONFIGURATION     == -32010
ERR_PAYMENT_REQUIRED  == -32011
ERR_INSUFFICIENT      == -32012
ERR_SUBSCRIPTION      == -32013

\* Every class of the hierarchy extends MCPError.
MCPErrorClasses ==
    {"MCPError", "ValidationError", "ToolExecutionError", "TimeoutError",
     "ConfigurationError", "PaymentRequiredError", "InsufficientCreditsError",
     "SubscriptionRequiredError", "ToolNotFoundError", "ResourceNotFoundError",
     "AuthenticationError", "AuthorizationError", "RateLimitError",
     "DependencyError"}

\* A thrown value is a record: class is the constructor's name ("Error" for a
\* plain Error, "string" for a thrown string, which has a value and no message).
MCPError(class, code, message, data) ==
    [class |-> class, code |-> code, message |-> message, data |-> data]

\* error instanceof MCPError
IsMCPError(e) == e.class \in MCPErrorClasses

\* error instanceof Error
IsError(e) == e.class = "Error" \/ IsMCPError(e)

\* `...(x && {key: x})` for a string x: the key is present only for a truthy x.
Truthy(x) == x \notin {Undefined, Null, ""}

\* The value undefined where an Error object is expected.
NoError == [class |-> Undefined]

TimeoutError(operation, timeoutMs) ==
    MCPError("TimeoutError", ERR_TIMEOUT,
             "Operation '" \o operation \o "' timed out after " \o ToString(timeoutMs) \o "ms",
             [operation |-> operation, timeoutMs |-> timeoutMs])

ToolExecutionError(toolName, reason, cause) ==
    MCPError("ToolExecutionError", ERR_TOOL_EXECUTION,
             "Tool '" \o toolName \o "' failed: " \o reason,
             IF cause # NoError
             THEN [tool |-> toolName, reason |-> reason, cause |-> cause.message]
             ELSE [tool |-> toolName, reason |-> reason])

\* value is << >> when the argument is undefined, <<v>> when v is passed:
\* `...(value !== undefined && { value })`
ValidationError(field, reason, value) ==
    MCPError("ValidationError", ERR_INVALID_PARAMS,
             "Validation failed for '" \o field \o "': " \o reason,
             IF value # << >>
             THEN [field |-> field, reason |-> reason, value |-> value[1]]
             ELSE [field |-> field, reason |-> reason])

ConfigurationError(setting, reason) ==
    MCPError("ConfigurationError", ERR_CONFIGURATION,
             "Invalid configuration '" \o setting \o "': " \o reason,
             [setting |-> setting, reason |-> reason])

\* `data` of an error built without one (this.data is undefined), and the
\* object without any key, `{}`.
NoData == [undefined |-> TRUE]
EmptyObject == [k \in {} |-> TRUE]

ToolNotFoundError(toolName) ==
    MCPError("ToolNotFoundError", ERR_TOOL_NOT_FOUND,
             "Tool '" \o toolName \o "' not found", [tool |-> toolName])

ResourceNotFoundError(resourceUri) ==
    MCPError("ResourceNotFoundError", ERR_RESOURCE_NOT_FOUND,
             "Resource '" \o resourceUri \o "' not found", [uri |-> resourceUri])

\* `reason: string = 'Authentication required'`; no data is passed on.
AuthenticationError(reason) ==
    MCPError("AuthenticationError", ERR_AUTHENTICATION,
             IF reason = Undefined THEN "Authentication required" ELSE reason,
             NoData)

AuthorizationError(action, resource) ==
    MCPError("AuthorizationError", ERR_AUTHORIZATION,
             IF Truthy(resource)
             THEN "Not authorized to " \o action \o " on '" \o resource \o "'"
             ELSE "Not authorized to " \o action,
             IF Truthy(resource) THEN [action |-> action, resource |-> resource]
             ELSE [action |-> action])

\* retryAfterMs is << >> when the argument is left out, <<n>> when n is passed:
\* `{ ...(retryAfterMs && { retryAfterMs }) }`
RateLimitErrorAsTimeout(retryAfterMs) ==
    MCPError("RateLimitError", ERR_TIMEOUT, "Rate limit exceeded",
             IF retryAfterMs # << >> /\ retryAfterMs[1] # 0
             THEN [retryAfterMs |-> retryAfterMs[1]]
             ELSE EmptyObject)
RateLimitError(retryAfterMs) ==
    MCPError("RateLimitError", ERR_RATE_LIMIT, "Rate limit exceeded",
             IF retryAfterMs # << >> /\ retryAfterMs[1] # 0
             THEN [retryAfterMs |-> retryAfterMs[1]]
             ELSE EmptyObject)

DependencyError(dependency, reason) ==
    MCPError("DependencyError", ERR_DEPENDENCY,
             "Dependency '" \o dependency \o "' unavailable: " \o reason,
             [dependency |-> dependency, reason |-> reason])

\* toJSON(): `{ code, message, ...(this.data && { data: this.data }) }`; every
\* object is truthy, the one without keys too.
ToJSON(e) ==
    IF e.data # NoData
    THEN [code |-> e.code, message |-> e.message, data |-> e.data]
    ELSE [code |-> e.code, message |-> e.message]

\* ============================================================= telemetry
\* The object built by trackToolCall; id stands for the object's identity
\* (its place in the order of creation, as its timestamp records).
ToolMetric(id, tool, success, error) ==
    IF Truthy(error)
    THEN [id |-> id, tool |-> tool, success |-> success, error |-> error]
    ELSE [id |-> id, tool |-> tool, success |-> success]

\* flush(): `const metrics = [...this.buffer]`
SnapshotOfNewest(buf) == SubSeq(buf, Len(buf), Len(buf))
SnapshotOf(buf) == buf

\* flush(): `this.buffer = []`
ClearedBufferKeep(buf) == buf
ClearedBuffer(buf) == << >>

\* flush(), catch: `this.buffer.unshift(...metrics)`
UnshiftDrop(buf, metrics) == buf
UnshiftAppend(buf, metrics) == buf \o metrics
Unshift(buf, metrics) == metrics \o buf

\* trackToolCall: `this.buffer.length >= this.config.batchSize`
BufferFullStrict(buf, size) == Len(buf) > size
BufferFull(buf, size) == Len(buf) >= size

\* The synchronous part of flush(), up to `await fetch(...)`, on buffer buf:
\* the buffer and the in-flight list it leaves. who names the caller that holds
\* the returned promise.
FlushBuffer(buf) == IF Len(buf) = 0 THEN buf ELSE ClearedBuffer(buf)
FlushInflightAlways(buf, fl, who) ==
    Append(fl, [who |-> who, metrics |-> SnapshotOf(buf)])
FlushInflight(buf, fl, who) ==
    IF Len(buf) = 0 THEN fl
    ELSE Append(fl, [who |-> who, metrics |-> SnapshotOf(buf)])

\* Telemetry.trackToolCall, as a change of the pipeline's variables.
TelemetryTrack(tool, success, error) ==
    LET metric == ToolMetric(nextId + 1, tool, success, error)
        pushed == Append(buffer, metric)
    IN  /\ nextId' = nextId + 1
        /\ IF BufferFull(pushed, batchSize)
           THEN /\ buffer' = FlushBuffer(pushed)
                /\ inflight' = FlushInflight(pushed, inflight, "size")
           ELSE /\ buffer' = pushed
                /\ inflight' = inflight
        /\ UNCHANGED <<globalTelemetry, batchSize, flushTimer, delivered, rejection,
                       shutdownAt,
                   replacedTimers>>

\* DemoTelemetry.trackToolCall: push, and log.
DemoTrack(tool, success, error) ==
    /\ nextId' = nextId + 1
    /\ buffer' = Append(buffer, ToolMetric(nextId + 1, tool, success, error))
    /\ UNCHANGED <<globalTelemetry, batchSize, flushTimer, inflight, delivered,
                   rejection, shutdownAt,
                   replacedTimers>>

\* `tel?.trackToolCall(...)` on getTelemetry()
TrackOnGlobal(tool, success, error) ==
    IF globalTelemetry = "Telemetry" THEN TelemetryTrack(tool, success, error)
    ELSE IF globalTelemetry = "DemoTelemetry" THEN DemoTrack(tool, success, error)
    ELSE UNCHANGED telVars

\* A direct call of trackToolCall on the Telemetry instance.
TrackToolCall(success, error) ==
    /\ globalTelemetry = "Telemetry"
    /\ ~exited
    /\ nextId < MaxEvents
    /\ TelemetryTrack("tool", success, error)
    /\ UNCHANGED <<cfgVars, wrapVars, payVars, exited, libVars>>

\* The setInterval callback: this.flush().catch(handleError)
TimerFlush ==
    /\ globalTelemetry = "Telemetry"
    /\ ~exited
    /\ flushTimer
    /\ buffer' = FlushBuffer(buffer)
    /\ inflight' = FlushInflight(buffer, inflight, "timer")
    /\ UNCHANGED <<globalTelemetry, batchSize, flushTimer, delivered, nextId,
                   rejection, shutdownAt,
                   replacedTimers>>
    /\ UNCHANGED <<cfgVars, wrapVars, payVars, exited, libVars>>

\* An explicit flush() by the integrator.
Flush ==
    /\ globalTelemetry = "Telemetry"
    /\ ~exited
    /\ buffer' = FlushBuffer(buffer)
    /\ inflight' = FlushInflight(buffer, inflight, "caller")
    /\ UNCHANGED <<globalTelemetry, batchSize, flushTimer, delivered, nextId,
                   rejection, shutdownAt,
                   replacedTimers>>
    /\ UNCHANGED <<cfgVars, wrapVars, payVars, exited, libVars>>

\* shutdown(): `clearInterval(this.flushTimer); this.flushTimer = null`
ClearIntervalKeep(timer) == timer
ClearInterval(timer) == FALSE

\* shutdown(): clearInterval, then this.flush().catch(handleError)
Shutdown ==
    /\ globalTelemetry = "Telemetry"
    /\ ~exited
    /\ flushTimer' = ClearInterval(flushTimer)
    /\ buffer' = FlushBuffer(buffer)
    /\ inflight' = FlushInflight(buffer, inflight, "shutdown")
    /\ shutdownAt' = IF shutdownAt = << >> THEN <<nextId>> ELSE shutdownAt
    /\ UNCHANGED <<globalTelemetry, batchSize, delivered, nextId, rejection,
                   replacedTimers>>
    /\ UNCHANGED <<cfgVars, wrapVars, payVars, exited, libVars>>

\* The 'beforeExit' listener of the constructor: `() => this.flush()`. Node emits
\* beforeExit when the event loop has nothing left to wait for: the interval is
\* cleared and no fetch is pending.
BeforeExit ==
    /\ globalTelemetry = "Telemetry"
    /\ ~exited
    /\ ~flushTimer
    /\ replacedTimers = 0
    /\ inflight = << >>
    /\ buffer' = FlushBuffer(buffer)
    /\ inflight' = FlushInflight(buffer, inflight, "beforeExit")
    /\ UNCHANGED <<globalTelemetry, batchSize, flushTimer, delivered, nextId,
                   rejection, shutdownAt,
                   replacedTimers>>
    /\ UNCHANGED <<cfgVars, wrapVars, payVars, exited, libVars>>

\* What becomes of the promise flush() returned to who when it rejects: the size
\* trigger, the timer and shutdown() attach `.catch(this.handleError)`; the
\* integrator who called flush() holds the promise itself; the beforeExit
\* listener drops it; the signal listeners end the process in `.finally`.
RejectionSinkRethrow(who) == "caller"
RejectionSink(who) ==
    IF who \in {"size", "timer", "shutdown"} THEN "handleError"
    ELSE IF who = "caller" THEN "caller"
    ELSE IF who = "signal" THEN "exit"
    ELSE "unhandled"

\* The SIGINT and SIGTERM listeners of the constructor:
\* `this.flush().finally(() => process.exit(0))`. flush() on an empty buffer
\* returns a promise that is already resolved, so the process exits before any
\* other callback runs; otherwise it exits when the attempt settles.
ExitsOnSettle(who) == who = "signal"
Signal ==
    /\ globalTelemetry = "Telemetry"
    /\ ~exited
    /\ buffer' = FlushBuffer(buffer)
    /\ inflight' = FlushInflight(buffer, inflight, "signal")
    /\ exited' = (buffer = << >>)
    /\ UNCHANGED <<globalTelemetry, batchSize, flushTimer, delivered, nextId,
                   rejection, shutdownAt,
                   replacedTimers>>
    /\ UNCHANGED <<cfgVars, wrapVars, payVars, libVars>>

\* The fetch of the i-th in-flight flush settles: response is "ok" (2xx),
\* "status" (a non-2xx answer) or "exception" (fetch rejected).
FetchResponses == {"ok", "status", "exception"}
FetchSettles(i, response) ==
    /\ ~exited
    /\ i \in 1..Len(inflight)
    /\ inflight' = RemoveAt(inflight, i)
    /\ IF response = "ok"
       THEN /\ delivered' = delivered \o inflight[i].metrics
            /\ buffer' = buffer
       ELSE /\ buffer' = Unshift(buffer, inflight[i].metrics)
            /\ delivered' = delivered
    /\ rejection' =
          IF response = "ok" THEN rejection
          ELSE <<[who |-> inflight[i].who, sink |-> RejectionSink(inflight[i].who)]>>
    /\ exited' = ExitsOnSettle(inflight[i].who)
    /\ UNCHANGED <<globalTelemetry, batchSize, flushTimer, nextId, shutdownAt,
                   replacedTimers>>
    /\ UNCHANGED <<cfgVars, wrapVars, payVars, libVars>>

\* --------------------------------------------------------- DemoTelemetry
\* DemoTelemetry.flush(): `if (this.buffer.length === 0) return`, a summary is
\* logged, `this.buffer = []`. Nothing is sent and nothing is awaited.
DemoFlushBufferKeep(buf) == buf
DemoFlushBuffer(buf) == IF Len(buf) = 0 THEN buf ELSE << >>

\* A direct call of trackToolCall on the DemoTelemetry instance.
DemoTrackToolCall(success, error) ==
    /\ globalTelemetry = "DemoTelemetry"
    /\ nextId < MaxEvents
    /\ DemoTrack("tool", success, error)
    /\ UNCHANGED <<cfgVars, wrapVars, payVars, exited, libVars>>

\* DemoTelemetry.flush()
DemoFlush ==
    /\ globalTelemetry = "DemoTelemetry"
    /\ buffer' = DemoFlushBuffer(buffer)
    /\ UNCHANGED <<globalTelemetry, batchSize, flushTimer, inflight, delivered,
                   nextId, rejection, shutdownAt,
                   replacedTimers>>
    /\ UNCHANGED <<cfgVars, wrapVars, payVars, exited, libVars>>

\* DemoTelemetry.shutdown(): one line on the console.
DemoShutdown ==
    /\ globalTelemetry = "DemoTelemetry"
    /\ UNCHANGED vars

\* ============================================================== wrapTool
DefaultTimeout == 30000

\* The destructuring of WrapToolOptions: `timeout = 30000`,
\* `telemetry: enableTelemetry = true`.
ResolveOptions(options) ==
    [name |-> options.name,
     timeout |-> IF "timeout" \in DOMAIN options THEN options.timeout ELSE DefaultTimeout,
     telemetry |-> IF "telemetry" \in DOMAIN options THEN options.telemetry ELSE TRUE]

\* What a handler can throw or reject with: an MCPError, a plain Error, a string.
Throwables ==
    {ValidationError("query", "Required", << >>),
     [class |-> "Error", message |-> "boom"],
     [class |-> "string", value |-> "oops"]}

\* `error instanceof Error ? error.message : String(error)`
ErrorMessage(e) == IF IsError(e) THEN e.message ELSE e.value

\* The end of the catch block: MCPErrors are rethrown as they are, anything else
\* is wrapped.
NormalizeAlwaysWrap(name, e) ==
    ToolExecutionError(name, ErrorMessage(e), IF IsError(e) THEN e ELSE NoError)
Normalize(name, e) ==
    IF IsMCPError(e) THEN e
    ELSE ToolExecutionError(name, ErrorMessage(e), IF IsError(e) THEN e ELSE NoError)

\* Promise.race: the first input to settle settles the race; later ones are ignored.
RaceSettleLast(race, result) == IF race.state = "none" THEN race ELSE result
RaceSettle(race, result) == IF race.state = "pending" THEN result ELSE race

\* The rejection of the timeout promise: `reject(new TimeoutError(name, timeout))`
TimerRejectionDefault(name, timeout) ==
    [state |-> "rejected", error |-> TimeoutError(name, DefaultTimeout)]
TimerRejection(name, timeout) ==
    [state |-> "rejected", error |-> TimeoutError(name, timeout)]

\* `if (enableTelemetry) { const tel = getTelemetry(); tel?.trackToolCall(...) }`
WrapTrackAlways(enabled, tool, success, error) == TrackOnGlobal(tool, success, error)
WrapTrackAsSuccess(enabled, tool, success, error) ==
    IF enabled THEN TrackOnGlobal(tool, TRUE, error) ELSE UNCHANGED telVars
WrapTrack(enabled, tool, success, error) ==
    IF enabled THEN TrackOnGlobal(tool, success, error) ELSE UNCHANGED telVars

\* The identities of the metrics a step created.
NewMetricIds == IF nextId' = nextId THEN << >> ELSE <<nextId'>>

\* The try block after the race fulfilled with value: report, return the value.
WrapReturn(c, call, value) ==
    /\ WrapTrack(wrapOptions.telemetry, wrapOptions.name, TRUE, "")
    /\ calls' = [calls EXCEPT ![c] =
                   [call EXCEPT !.pc = "done",
                                !.outcomes = Append(@, [settled |-> "resolved",
                                                        value |-> value]),
                                !.tracked = @ \o NewMetricIds]]

\* The catch block on the caught value e: report, rethrow or wrap.
WrapCatch(c, call, e) ==
    /\ WrapTrack(wrapOptions.telemetry, wrapOptions.name, FALSE, ErrorMessage(e))
    /\ calls' = [calls EXCEPT ![c] =
                   [call EXCEPT !.pc = "done",
                                !.caught = <<e>>,
                                !.outcomes = Append(@, [settled |-> "rejected",
                                                        error |-> Normalize(wrapOptions.name, e)]),
                                !.tracked = @ \o NewMetricIds]]

\* What the handler does when it is called: throw, return a value, or return a
\* promise that is still pending.
HandlerBehaviours ==
    {[kind |-> "throws", error |-> e] : e \in Throwables}
    \cup {[kind |-> "returns", value |-> "result"], [kind |-> "promise"]}

\* One invocation of the wrapped tool, up to the await of the race: the timeout
\* promise is created (the timer armed), then the handler is called. The logger
\* is an external collaborator: its calls emit a record and return.
Invoke(c, h) ==
    /\ calls[c].pc = "idle"
    /\ c > 1 => calls[c - 1].pc # "idle"    \* records are numbered as invoked
    /\ LET started == [calls[c] EXCEPT !.timer = "armed", !.handlerRuns = @ + 1]
       IN  IF h.kind = "throws"
           THEN WrapCatch(c, [started EXCEPT !.handler = [state |-> "threw", error |-> h.error],
                                             !.first = "handler"], h.error)
           ELSE /\ calls' = [calls EXCEPT ![c] =
                      IF h.kind = "returns"
                      THEN [started EXCEPT
                              !.pc = "awaiting",
                              !.handler = [state |-> "fulfilled", value |-> h.value],
                              !.race = [state |-> "fulfilled", value |-> h.value],
                              !.first = "handler"]
                      ELSE [started EXCEPT
                              !.pc = "awaiting",
                              !.handler = [state |-> "pending"],
                              !.race = [state |-> "pending"]]]
                /\ UNCHANGED telVars
    /\ UNCHANGED <<wrapOptions, cfgVars, payVars, exited, libVars>>

\* How the handler's promise can settle.
HandlerResults ==
    {[state |-> "fulfilled", value |-> "result"]}
    \cup {[state |-> "rejected", error |-> e] : e \in Throwables}

\* The promise returned by the handler settles, before or after the timeout.
HandlerSettles(c, result) ==
    /\ calls[c].handler.state = "pending"
    /\ calls' = [calls EXCEPT ![c] =
                   [@ EXCEPT !.handler = result,
                             !.race = RaceSettle(@, result),
                             !.first = IF @ = "none" THEN "handler" ELSE @]]
    /\ UNCHANGED <<wrapOptions, cfgVars, telVars, payVars, exited, libVars>>

\* The setTimeout callback of the invocation runs; it is never cleared.
TimerFires(c) ==
    /\ calls[c].timer = "armed"
    /\ calls' = [calls EXCEPT ![c] =
                   [@ EXCEPT !.timer = "fired",
                             !.race = RaceSettle(@, TimerRejection(wrapOptions.name,
                                                                   wrapOptions.timeout)),
                             !.first = IF @ = "none" THEN "timer" ELSE @]]
    /\ UNCHANGED <<wrapOptions, cfgVars, telVars, payVars, exited, libVars>>

\* The race has settled: the invocation resumes after its await.
Continue(c) ==
    /\ calls[c].pc = "awaiting"
    /\ calls[c].race.state \in {"fulfilled", "rejected"}
    /\ IF calls[c].race.state = "fulfilled"
       THEN WrapReturn(c, calls[c], calls[c].race.value)
       ELSE WrapCatch(c, calls[c], calls[c].race.error)
    /\ UNCHANGED <<wrapOptions, cfgVars, payVars, exited, libVars>>

\* ================================================================ config
\* initOpenConductor(config): the configuration it stores. config.apiKey and
\* config.demoMode are present or not.
\* `a ?? b`
Coalesce(a, b) == IF a \in {Undefined, Null} THEN b ELSE a

InitOpenConductorResultKeepsKey(config, env) ==
    LET apiKey == Coalesce(Coalesce(IF "apiKey" \in DOMAIN config THEN config.apiKey
                                    ELSE Undefined, env), Null)
        demoMode == ("demoMode" \in DOMAIN config /\ config.demoMode = TRUE)
                    \/ ~Truthy(apiKey)
    IN  [initialized |-> TRUE, demoMode |-> demoMode, apiKey |-> apiKey]
InitOpenConductorResult(config, env) ==
    LET apiKey == Coalesce(Coalesce(IF "apiKey" \in DOMAIN config THEN config.apiKey
                                    ELSE Undefined, env), Null)
        demoMode == ("demoMode" \in DOMAIN config /\ config.demoMode = TRUE)
                    \/ ~Truthy(apiKey)
    IN  [initialized |-> TRUE, demoMode |-> demoMode,
         apiKey |-> IF demoMode THEN Null ELSE apiKey]

\* The configuration before initOpenConductor, and after resetConfig().
UninitializedConfig == [initialized |-> FALSE, demoMode |-> FALSE, apiKey |-> Null]

\* getConfig(): auto-initializes an uninitialized SDK; the configuration it
\* returns is also the one it leaves in globalConfig.
GetConfigStored(cfg, env) == cfg
GetConfig(cfg, env) ==
    IF ~cfg.initialized THEN InitOpenConductorResult([quiet |-> TRUE], env) ELSE cfg

\* isDemoMode()
IsDemoMode(cfg, env) == GetConfig(cfg, env).demoMode

\* The arguments the integrator can pass to initOpenConductor.
ConfigChoices ==
    {[quiet |-> TRUE], [apiKey |-> "key"], [apiKey |-> "key", demoMode |-> TRUE]}

InitOpenConductor(config) ==
    /\ globalConfig' = InitOpenConductorResult(config, envApiKey)
    /\ UNCHANGED <<envApiKey, telVars, wrapVars, payVars, exited, libVars>>

ResetConfigDropsTelemetry ==
    /\ globalConfig' = UninitializedConfig
    /\ globalTelemetry' = "null"
    /\ flushTimer' = FALSE
    /\ UNCHANGED <<envApiKey, batchSize, buffer, inflight, delivered, nextId,
                   rejection, shutdownAt, replacedTimers, wrapVars, payVars,
                   exited, libVars>>
ResetConfig ==
    /\ globalConfig' = UninitializedConfig
    /\ UNCHANGED <<envApiKey, telVars, wrapVars, payVars, exited, libVars>>

\* =============================================================== payment
MockCredits == 9999
MOCK_BILLING_STATUS ==
    [allowed |-> TRUE, credits |-> MockCredits, tier |-> "demo",
     actionUrl |-> "https://openconductor.ai/pricing"]

\* `let paymentConfig: PaymentConfig | null = null`
NoPaymentConfig == [null |-> TRUE]

\* initPayment in demo mode
DemoPaymentConfig ==
    [null |-> FALSE, apiKey |-> "demo_key", testMode |-> TRUE,
     upgradeUrl |-> "https://openconductor.ai/pricing"]

\* initPayment in production mode: `{apiUrl, testMode: false, ...config}`
ProductionPaymentConfig(config) ==
    [null |-> FALSE, apiKey |-> config.apiKey,
     testMode |-> IF "testMode" \in DOMAIN config THEN config.testMode ELSE FALSE,
     upgradeUrl |-> IF "upgradeUrl" \in DOMAIN config THEN config.upgradeUrl
                    ELSE Undefined]

\* The arguments the integrator can pass to initPayment; none is initPayment().
PaymentConfigChoices ==
    {[none |-> TRUE],
     [apiKey |-> "key"],
     [apiKey |-> "key", upgradeUrl |-> "https://app/upgrade"],
     [apiKey |-> "key", testMode |-> TRUE]}

\* initPayment(config): throws ConfigurationError in production mode without an
\* apiKey and then leaves paymentConfig as it was.
InitPayment(config) ==
    /\ globalConfig' = GetConfig(globalConfig, envApiKey)
    /\ paymentConfig' =
          IF IsDemoMode(globalConfig, envApiKey) THEN DemoPaymentConfig
          ELSE IF "apiKey" \notin DOMAIN config \/ ~Truthy(config.apiKey)
          THEN paymentConfig
          ELSE ProductionPaymentConfig(config)
    /\ UNCHANGED <<envApiKey, telVars, wrapVars, requirement, gate, exited, libVars>>

PaymentRequiredError(toolName, upgradeUrl, priceId) ==
    MCPError("PaymentRequiredError", ERR_PAYMENT_REQUIRED,
             "Payment required to use '" \o toolName \o "'",
             IF Truthy(upgradeUrl) /\ Truthy(priceId)
             THEN [tool |-> toolName, upgradeUrl |-> upgradeUrl, priceId |-> priceId]
             ELSE IF Truthy(upgradeUrl)
             THEN [tool |-> toolName, upgradeUrl |-> upgradeUrl]
             ELSE IF Truthy(priceId)
             THEN [tool |-> toolName, priceId |-> priceId]
             ELSE [tool |-> toolName])

InsufficientCreditsError(required, available, purchaseUrl) ==
    MCPError("InsufficientCreditsError", ERR_INSUFFICIENT,
             "Insufficient credits: need " \o ToString(required) \o ", have "
                 \o ToString(available),
             IF Truthy(purchaseUrl)
             THEN [required |-> required, available |-> available,
                   purchaseUrl |-> purchaseUrl]
             ELSE [required |-> required, available |-> available])

SubscriptionRequiredError(requiredTier, currentTier, upgradeUrl) ==
    MCPError("SubscriptionRequiredError", ERR_SUBSCRIPTION,
             IF Truthy(currentTier)
             THEN "Subscription '" \o requiredTier \o "' required (current: '"
                      \o currentTier \o "')"
             ELSE "Subscription '" \o requiredTier \o "' required",
             IF Truthy(currentTier) /\ Truthy(upgradeUrl)
             THEN [requiredTier |-> requiredTier, currentTier |-> currentTier,
                   upgradeUrl |-> upgradeUrl]
             ELSE IF Truthy(currentTier)
             THEN [requiredTier |-> requiredTier, currentTier |-> currentTier]
             ELSE IF Truthy(upgradeUrl)
             THEN [requiredTier |-> requiredTier, upgradeUrl |-> upgradeUrl]
             ELSE [requiredTier |-> requiredTier])

\* The type guards on the requirement.
IsCreditRequirement(req) == "credits" \in DOMAIN req
IsSubscriptionRequirement(req) == "tier" \in DOMAIN req
IsStripeRequirement(req) == "priceId" \in DOMAIN req

\* The requirements a tool can be gated with.
Requirements == {[credits |-> 5], [tier |-> "pro"], [priceId |-> "price_1"]}

\* `config.testMode` in checkBilling and deductCredits
IsTestModeNever(config) == FALSE
IsTestMode(config) == config.testMode

\* checkBilling up to its first await: the decision it returns at once, the
\* error it throws, or the fetch it issues.
CheckBilling(cfg, env, config) ==
    IF IsDemoMode(cfg, env) THEN [kind |-> "status", status |-> MOCK_BILLING_STATUS]
    ELSE IF config.null
    THEN [kind |-> "throw",
          error |-> ConfigurationError("payment",
                        "Payment not initialized. Call initPayment() first.")]
    ELSE IF IsTestMode(config)
    THEN [kind |-> "status",
          status |-> [allowed |-> TRUE, credits |-> MockCredits, tier |-> "test"]]
    ELSE [kind |-> "fetch"]

\* What the billing-check endpoint can answer: a network exception, a non-2xx
\* status, a 2xx body that is not JSON, or a BillingStatus.
CheckResponses ==
    {[kind |-> "exception"], [kind |-> "status"], [kind |-> "badjson"]}
    \cup {[kind |-> "json", body |-> b] :
            b \in {[allowed |-> TRUE, credits |-> 7],
                   [allowed |-> FALSE, credits |-> 3, actionUrl |-> "https://buy"],
                   [allowed |-> FALSE, tier |-> "free"]}}

\* checkBilling after its fetch settled, with the configuration it captured.
CheckBillingResult(response, upgradeUrl) ==
    IF response.kind = "json" THEN response.body
    ELSE IF response.kind = "status"
    THEN [allowed |-> FALSE, reason |-> "Billing service unavailable",
          actionUrl |-> upgradeUrl]
    ELSE [allowed |-> FALSE, reason |-> "Unable to verify billing status",
          actionUrl |-> upgradeUrl]

\* deductCredits up to its first await: its result, or the fetch it issues.
DeductCredits(cfg, env, config) ==
    IF IsDemoMode(cfg, env) THEN [kind |-> "result", ok |-> TRUE]
    ELSE IF config.null THEN [kind |-> "result", ok |-> FALSE]
    ELSE IF IsTestMode(config) THEN [kind |-> "result", ok |-> TRUE]
    ELSE [kind |-> "fetch"]

\* `status.x ?? d`
FieldOr(status, field, default) ==
    IF field \in DOMAIN status THEN status[field] ELSE default

\* `if (!status.allowed)`
AllowedAlways(status) == TRUE
Allowed(status) == status.allowed

\* The error requirePayment throws for a decision that disallows.
DenialErrorGeneric(req, toolName, status) ==
    PaymentRequiredError(toolName, FieldOr(status, "actionUrl", Undefined), Undefined)
DenialError(req, toolName, status) ==
    IF IsCreditRequirement(req)
    THEN InsufficientCreditsError(req.credits, FieldOr(status, "credits", 0),
                                  FieldOr(status, "actionUrl", Undefined))
    ELSE IF IsSubscriptionRequirement(req)
    THEN SubscriptionRequiredError(req.tier, FieldOr(status, "tier", Undefined),
                                   FieldOr(status, "actionUrl", Undefined))
    ELSE PaymentRequiredError(toolName, FieldOr(status, "actionUrl", Undefined),
                              IF IsStripeRequirement(req) THEN req.priceId
                              ELSE Undefined)

\* `toolName = 'unknown'`
GateToolName == "unknown"

\* The invocation rejects with error e.
GateThrows(g, e) ==
    [g EXCEPT !.pc = "done", !.outcomes = Append(@, [settled |-> "rejected", error |-> e])]

\* requirePayment from the decision on: deny, or call the handler.
AfterCheck(g, status) ==
    LET decided == [g EXCEPT !.decision = <<status>>]
    IN  IF ~Allowed(status)
        THEN GateThrows(decided, DenialError(requirement, GateToolName, status))
        ELSE [decided EXCEPT !.pc = "handler", !.handler = "pending",
                             !.handlerRuns = @ + 1]

\* The user ids an input can carry: none, an empty one, a real one.
UserIds == {Undefined, "", "u1"}

\* `if (!userId)` on `getUserId?.(input) ?? input.userId`
NoUserIdNever(userId) == FALSE
NoUserId(userId) == ~Truthy(userId)

\* One invocation of the gated tool, up to its first await of something pending.
GateInvokeStep(c, userId) ==
    /\ gate[c].pc = "idle"
    /\ c > 1 => gate[c - 1].pc # "idle"    \* records are numbered as invoked
    /\ LET g == [gate[c] EXCEPT !.userId = userId]
           check == CheckBilling(globalConfig, envApiKey, paymentConfig)
           checked == [g EXCEPT !.checks = @ + 1]
       IN  IF NoUserId(userId)
           THEN /\ gate' = [gate EXCEPT ![c] =
                      GateThrows(g, PaymentRequiredError(GateToolName,
                          IF paymentConfig.null THEN Undefined
                          ELSE paymentConfig.upgradeUrl, Undefined))]
                /\ UNCHANGED globalConfig
           ELSE /\ globalConfig' = GetConfig(globalConfig, envApiKey)
                /\ gate' = [gate EXCEPT ![c] =
                      IF check.kind = "throw" THEN GateThrows(checked, check.error)
                      ELSE IF check.kind = "status" THEN AfterCheck(checked, check.status)
                      ELSE [checked EXCEPT !.pc = "checking",
                                           !.fetches = Append(@, "check"),
                                           !.upgradeUrl = paymentConfig.upgradeUrl]]

\* The gated tool invoked on its own: nothing else moves.
GateInvoke(c, userId) ==
    /\ GateInvokeStep(c, userId)
    /\ UNCHANGED <<envApiKey, telVars, wrapVars, paymentConfig, requirement, exited, libVars>>

\* The fetch of the billing check settles.
CheckSettlesStep(c, response) ==
    /\ gate[c].pc = "checking"
    /\ gate' = [gate EXCEPT ![c] =
                  AfterCheck([@ EXCEPT !.upgradeUrl = Undefined],
                             CheckBillingResult(response, gate[c].upgradeUrl))]

\* The check of a gated tool invoked on its own settles.
CheckSettles(c, response) ==
    /\ CheckSettlesStep(c, response)
    /\ UNCHANGED <<cfgVars, telVars, wrapVars, paymentConfig, requirement, exited, libVars>>

\* Whether requirePayment calls deductCredits once the handler has settled.
ShouldDeductAlways(req, handlerState) == IsCreditRequirement(req)
ShouldDeduct(req, handlerState) ==
    handlerState = "fulfilled" /\ IsCreditRequirement(req)

\* The protected handler settles: it returns (ok) or throws.
GateHandlerSettlesStep(c, ok) ==
    /\ gate[c].pc = "handler"
    /\ LET state == IF ok THEN "fulfilled" ELSE "rejected"
           g == [gate[c] EXCEPT !.handler = state]
           deduct == DeductCredits(globalConfig, envApiKey, paymentConfig)
           called == [g EXCEPT !.deducts = Append(@, [userId |-> g.userId,
                                                      credits |-> requirement.credits])]
           finish(h) == IF ok
                        THEN [h EXCEPT !.pc = "done",
                                       !.outcomes = Append(@, [settled |-> "resolved",
                                                               value |-> "result"])]
                        ELSE GateThrows(h, [class |-> "Error", message |-> "boom"])
       IN  IF ShouldDeduct(requirement, state)
           THEN /\ globalConfig' = GetConfig(globalConfig, envApiKey)
                /\ gate' = [gate EXCEPT ![c] =
                      IF deduct.kind = "fetch"
                      THEN [called EXCEPT !.pc = "deducting",
                                          !.fetches = Append(@, "deduct")]
                      ELSE finish([called EXCEPT !.deducted = <<deduct.ok>>])]
           ELSE /\ gate' = [gate EXCEPT ![c] = finish(g)]
                /\ UNCHANGED globalConfig

\* The handler of a gated tool invoked on its own settles.
GateHandlerSettles(c, ok) ==
    /\ GateHandlerSettlesStep(c, ok)
    /\ UNCHANGED <<envApiKey, telVars, wrapVars, paymentConfig, requirement, exited, libVars>>

\* requirePayment once `await deductCredits(...)` has given ok: the result is
\* ignored and `return result` delivers the handler's value.
AfterDeductUnwinds(g, ok) ==
    IF ok
    THEN [g EXCEPT !.pc = "done", !.deducted = <<ok>>,
                   !.outcomes = Append(@, [settled |-> "resolved", value |-> "result"])]
    ELSE GateThrows([g EXCEPT !.deducted = <<ok>>],
                    [class |-> "Error", message |-> "deduction failed"])
AfterDeduct(g, ok) ==
    [g EXCEPT !.pc = "done", !.deducted = <<ok>>,
              !.outcomes = Append(@, [settled |-> "resolved", value |-> "result"])]

\* The fetch of the deduction settles: `return response.ok`, or false when it
\* threw.
DeductSettlesStep(c, response) ==
    /\ gate[c].pc = "deducting"
    /\ gate' = [gate EXCEPT ![c] = AfterDeduct(@, response = "ok")]

\* The deduction of a gated tool invoked on its own settles.
DeductSettles(c, response) ==
    /\ DeductSettlesStep(c, response)
    /\ UNCHANGED <<cfgVars, telVars, wrapVars, paymentConfig, requirement, exited, libVars>>

\* ---------------------------------------------------------------- quiescent parts
\* The configuration after initOpenConductor({apiKey}) in production mode.
ProductionConfig == [initialized |-> TRUE, demoMode |-> FALSE, apiKey |-> "key"]

\* An invocation that has not started. first (which of the handler and the timer
\* settled first), caught (the value the catch block received) and tracked (the
\* metrics the invocation created) record what happened.
IdleCall ==
    [pc |-> "idle", handlerRuns |-> 0, handler |-> [state |-> "none"],
     timer |-> "none", race |-> [state |-> "none"], first |-> "none",
     caught |-> << >>, outcomes |-> << >>, tracked |-> << >>]

\* An invocation of the gated tool that has not started. checks counts the calls
\* of checkBilling, decision holds the BillingStatus it returned, fetches lists
\* the requests issued, deducts the calls of deductCredits and deducted their
\* results; upgradeUrl is the `config` the pending checkBilling captured.
IdleGate ==
    [pc |-> "idle", userId |-> Undefined, checks |-> 0, decision |-> << >>,
     upgradeUrl |-> Undefined, handler |-> "none", handlerRuns |-> 0,
     fetches |-> << >>, deducts |-> << >>, deducted |-> << >>, outcomes |-> << >>]

\* No library function has been called.
LibIdle ==
    /\ sanitized = << >>
    /\ thrown = << >>
    /\ health = << >>
    /\ validation = << >>

WrapIdle ==
    /\ wrapOptions = ResolveOptions([name |-> "op"])
    /\ calls = [c \in 1..MaxCalls |-> IdleCall]

PayIdle ==
    /\ paymentConfig = NoPaymentConfig
    /\ requirement = [credits |-> 5]
    /\ gate = [c \in 1..MaxGateCalls |-> IdleGate]

\* ------------------------------------------------- the metering pipeline alone
\* new Telemetry(config) in production mode: the constructor has run.
InitTel ==
    /\ globalConfig = ProductionConfig
    /\ envApiKey = Undefined
    /\ globalTelemetry = "Telemetry"
    /\ batchSize \in 1..MaxBatchSize
    /\ buffer = << >>
    /\ flushTimer = TRUE
    /\ inflight = << >>
    /\ delivered = << >>
    /\ nextId = 0
    /\ rejection = << >>
    /\ shutdownAt = << >>
    /\ replacedTimers = 0
    /\ exited = FALSE
    /\ LibIdle
    /\ WrapIdle
    /\ PayIdle

NextTel ==
    \/ TrackToolCall(FALSE, "boom")
    \/ TimerFlush
    \/ Flush
    \/ Shutdown
    \/ BeforeExit
    \/ \E i \in 1..Len(inflight) : \E r \in FetchResponses : FetchSettles(i, r)

SpecTel == InitTel /\ [][NextTel]_vars

\* ------------------------------------------------------------------ C1
\* How often the metric with identity id occurs in a sequence of metrics.
CountIn(s, id) == Cardinality({i \in 1..Len(s) : s[i].id = id})

\* How often it occurs in the snapshots of the in-flight attempts.
CountInflight(id) ==
    LET RECURSIVE Sum(_)
        Sum(k) == IF k = 0 THEN 0 ELSE CountIn(inflight[k].metrics, id) + Sum(k - 1)
    IN  Sum(Len(inflight))

ExactlyOnePlace ==
    \A id \in 1..nextId :
        CountIn(buffer, id) + CountInflight(id) + CountIn(delivered, id) = 1

\* A step that tracks an event leaves every snapshot already in flight as it was.
TrackKeepsSnapshots ==
    nextId' = nextId + 1 =>
        /\ Len(inflight') >= Len(inflight)
        /\ SubSeq(inflight', 1, Len(inflight)) = inflight

\* C1: under every interleaving of trackToolCall, timer flush, size flush, explicit
\* flush and the success or failure of each delivery attempt, every tracked event
\* is in exactly one of: the buffer, the snapshot of one in-flight attempt, the
\* delivered events; and tracking an event never changes a batch being sent.
C1_NoLossNoDuplication == [][TrackKeepsSnapshots]_vars /\ []ExactlyOnePlace

\* Three events, one in each place, with an attempt in flight.
C1_Witness ==
    /\ nextId = 3
    /\ Len(buffer) = 1 /\ Len(delivered) = 1
    /\ Len(inflight) = 1 /\ Len(inflight[1].metrics) = 1
    /\ buffer[1].id = 3

\* ------------------------------------------------------------------ C2
\* The i-th attempt ends without a delivery: its fetch failed.
AttemptFails(i) ==
    /\ i \in 1..Len(inflight)
    /\ inflight' = RemoveAt(inflight, i)
    /\ delivered' = delivered

\* C2: when a delivery attempt fails, the buffer right after is the attempt's
\* snapshot in its original order followed by the buffer as it was just before.
C2_FailureRestoresSnapshotInFront ==
    [][\A i \in 1..Len(inflight) :
          AttemptFails(i) => buffer' = inflight[i].metrics \o buffer]_vars

\* With batchSize 2 the buffer holds three events only after a failed attempt put
\* events 1 and 2 back in front of event 3, tracked during the attempt.
C2_Witness ==
    /\ batchSize = 2
    /\ Len(buffer) = 3
    /\ buffer[1].id = 1 /\ buffer[2].id = 2 /\ buffer[3].id = 3
    /\ inflight = << >>

\* ------------------------------------------------------------------ C3
\* C3: a trackToolCall that brings the buffer to batchSize or more events empties
\* the buffer and puts one new attempt in flight, carrying the buffer's events in
\* order followed by the new event, in the same step.
C3_SizeTriggersFlushInSameStep ==
    [][(nextId' = nextId + 1 /\ Len(buffer) + 1 >= batchSize) =>
          /\ buffer' = << >>
          /\ Len(inflight') = Len(inflight) + 1
          /\ Len(inflight'[Len(inflight')].metrics) = Len(buffer) + 1
          /\ SubSeq(inflight'[Len(inflight')].metrics, 1, Len(buffer)) = buffer
          /\ inflight'[Len(inflight')].metrics[Len(buffer) + 1].id = nextId']_vars

\* batchSize (3) calls on an empty pipeline: an empty buffer and one attempt with
\* events 1, 2, 3 in flight, nothing delivered.
C3_Witness ==
    /\ batchSize = 3 /\ nextId = 3
    /\ buffer = << >> /\ delivered = << >>
    /\ Len(inflight) = 1
    /\ inflight[1].who = "size"
    /\ [i \in 1..3 |-> inflight[1].metrics[i].id] = <<1, 2, 3>>

\* ------------------------------------------------- the wrapped tool and its metering
DemoConfig == [initialized |-> TRUE, demoMode |-> TRUE, apiKey |-> Null]

\* The options the integrator can pass to wrapTool.
OptionChoices ==
    {[name |-> "op"],
     [name |-> "op", timeout |-> 50],
     [name |-> "op", timeout |-> 50, telemetry |-> FALSE],
     [name |-> "op", telemetry |-> TRUE]}

\* wrapTool(handler, options) has returned the wrapped tool; initTelemetry has
\* been called (in production or in demo mode) or not.
InitWrap ==
    /\ globalTelemetry \in {"null", "Telemetry", "DemoTelemetry"}
    /\ globalConfig = IF globalTelemetry = "DemoTelemetry" THEN DemoConfig
                      ELSE ProductionConfig
    /\ envApiKey = Undefined
    /\ batchSize = 2
    /\ buffer = << >>
    /\ flushTimer = (globalTelemetry = "Telemetry")
    /\ inflight = << >>
    /\ delivered = << >>
    /\ nextId = 0
    /\ rejection = << >>
    /\ shutdownAt = << >>
    /\ replacedTimers = 0
    /\ exited = FALSE
    /\ LibIdle
    /\ wrapOptions \in {ResolveOptions(o) : o \in OptionChoices}
    /\ calls = [c \in 1..MaxCalls |-> IdleCall]
    /\ PayIdle

NextWrap ==
    \/ \E c \in 1..MaxCalls : \E h \in HandlerBehaviours : Invoke(c, h)
    \/ \E c \in 1..MaxCalls : \E r \in HandlerResults : HandlerSettles(c, r)
    \/ \E c \in 1..MaxCalls : TimerFires(c)
    \/ \E c \in 1..MaxCalls : Continue(c)

SpecWrap == InitWrap /\ [][NextWrap]_vars

\* The event loop runs every timer callback that is due and resumes every
\* continuation whose promise has settled.
\* The wrapped tool in a process where initTelemetry was never called.
InitWrapUnmetered == InitWrap /\ globalTelemetry = "null"

FairSpecWrap ==
    /\ InitWrapUnmetered
    /\ [][NextWrap]_vars
    /\ \A c \in 1..MaxCalls : WF_vars(TimerFires(c)) /\ WF_vars(Continue(c))

\* ------------------------------------------------------------------ C4
\* The outcome of a finished invocation is the one its first settler decides.
OutcomeOfFirstSettler(call) ==
    LET out == call.outcomes[1]
    IN  IF call.first = "timer"
        THEN /\ out.settled = "rejected"
             /\ out.error.class = "TimeoutError"
        ELSE IF call.handler.state = "fulfilled"
        THEN /\ out.settled = "resolved"
             /\ out.value = call.handler.value
        ELSE /\ call.handler.state \in {"rejected", "threw"}
             /\ out.settled = "rejected"
             /\ \/ out.error = call.handler.error
                \/ /\ out.error.class = "ToolExecutionError"
                   /\ out.error.data.reason = ErrorMessage(call.handler.error)

OneCallOneOutcome ==
    \A c \in 1..MaxCalls :
        /\ calls[c].handlerRuns = (IF calls[c].pc = "idle" THEN 0 ELSE 1)
        /\ Len(calls[c].outcomes) = (IF calls[c].pc = "done" THEN 1 ELSE 0)
        /\ calls[c].pc = "done" => OutcomeOfFirstSettler(calls[c])

DeliveredOutcomeIsFinal ==
    \A c \in 1..MaxCalls :
        calls[c].outcomes # << >> => calls'[c].outcomes = calls[c].outcomes

TimeoutOutcome ==
    \A c \in 1..MaxCalls :
        (calls[c].pc = "done" /\ calls[c].first = "timer") =>
            /\ calls[c].outcomes[1].settled = "rejected"
            /\ calls[c].outcomes[1].error.class = "TimeoutError"
            /\ calls[c].outcomes[1].error.code = -32007
            /\ calls[c].outcomes[1].error.data =
                   [operation |-> wrapOptions.name, timeoutMs |-> wrapOptions.timeout]

\* C5: every started invocation settles, also when the handler never does; when
\* the timer fires before the handler has settled the caller receives a
\* TimeoutError, code -32007, whose data holds the operation name and the
\* configured timeout, whatever the handler does afterwards.
C5_TimeoutSettlesTheCall ==
    /\ []TimeoutOutcome
    /\ \A c \in 1..MaxCalls : (calls[c].pc = "awaiting") ~> (calls[c].pc = "done")

\* timeout: 50, the handler still pending: the caller has its TimeoutError with 50.
C5_Witness ==
    /\ calls[1].pc = "done"
    /\ calls[1].handler.state = "pending"
    /\ calls[1].outcomes[1].settled = "rejected"
    /\ calls[1].outcomes[1].error.code = -32007
    /\ calls[1].outcomes[1].error.data.timeoutMs = 50
    /\ calls[1].outcomes[1].error.data.operation = "op"

AllMetrics ==
    Range(buffer) \cup Range(delivered)
    \cup UNION {Range(inflight[i].metrics) : i \in 1..Len(inflight)}

OutcomeWhateverMetering(call) ==
    IF call.first = "timer"
    THEN [settled |-> "rejected",
          error |-> TimeoutError(wrapOptions.name, wrapOptions.timeout)]
    ELSE IF call.handler.state = "fulfilled"
    THEN [settled |-> "resolved", value |-> call.handler.value]
    ELSE [settled |-> "rejected",
          error |-> IF IsMCPError(call.handler.error) THEN call.handler.error
                    ELSE ToolExecutionError(wrapOptions.name,
                                            ErrorMessage(call.handler.error),
                                            IF IsError(call.handler.error)
                                            THEN call.handler.error ELSE NoError)]

\* C24: with the telemetry option false no invocation ever calls trackToolCall:
\* the metering pipeline stays as it was, whatever the outcome; and the outcome
\* delivered is the one determined by the handler and the timer alone, the same
\* with the option on or off.
C24_MeteringOffLeavesPipelineAndOutcome ==
    /\ ~wrapOptions.telemetry =>
          /\ nextId = 0
          /\ buffer = << >> /\ inflight = << >> /\ delivered = << >>
          /\ \A c \in 1..MaxCalls : calls[c].tracked = << >>
    /\ \A c \in 1..MaxCalls :
          calls[c].pc = "done" =>
              calls[c].outcomes = <<OutcomeWhateverMetering(calls[c])>>

\* With the option off and a production pipeline present: one call timed out,
\* one failed and nothing was tracked.
C24_Witness ==
    /\ ~wrapOptions.telemetry /\ globalTelemetry = "Telemetry"
    /\ calls[1].pc = "done" /\ calls[1].first = "timer"
    /\ calls[2].pc = "done" /\ calls[2].handler.state = "rejected"
    /\ nextId = 0 /\ buffer = << >>

\* ------------------------------------------------- the gated tool and the SDK mode
\* requirePayment(requirement)(handler) has returned the gated tool; neither
\* initOpenConductor nor initPayment has been called yet.
InitPay ==
    /\ globalConfig = UninitializedConfig
    /\ envApiKey = Undefined
    /\ globalTelemetry = "null"
    /\ batchSize = 2
    /\ buffer = << >>
    /\ flushTimer = FALSE
    /\ inflight = << >>
    /\ delivered = << >>
    /\ nextId = 0
    /\ rejection = << >>
    /\ shutdownAt = << >>
    /\ replacedTimers = 0
    /\ exited = FALSE
    /\ LibIdle
    /\ WrapIdle
    /\ paymentConfig = NoPaymentConfig
    /\ requirement \in Requirements
    /\ gate = [c \in 1..MaxGateCalls |-> IdleGate]

NextPay ==
    \/ \E config \in ConfigChoices : InitOpenConductor(config)
    \/ ResetConfig
    \/ \E config \in PaymentConfigChoices : InitPayment(config)
    \/ \E c \in 1..MaxGateCalls : \E u \in UserIds : GateInvoke(c, u)
    \/ \E c \in 1..MaxGateCalls : \E r \in CheckResponses : CheckSettles(c, r)
    \/ \E c \in 1..MaxGateCalls : \E ok \in BOOLEAN : GateHandlerSettles(c, ok)
    \/ \E c \in 1..MaxGateCalls : \E r \in FetchResponses : DeductSettles(c, r)

SpecPay == InitPay /\ [][NextPay]_vars

\* ------------------------------------------------------------------ C8
\* C8: the protected handler runs at most once per invocation and only after the
\* billing check of that invocation returned a decision with allowed = TRUE for a
\* resolved user id: never without a user id, on a denial, or when the check raised.
C8_HandlerOnlyAfterAllowed ==
    \A c \in 1..MaxGateCalls :
        /\ gate[c].handlerRuns <= 1
        /\ gate[c].handlerRuns = 1 =>
              /\ gate[c].userId \notin {Undefined, ""}
              /\ gate[c].checks = 1
              /\ Len(gate[c].decision) = 1
              /\ gate[c].decision[1].allowed = TRUE
        /\ (gate[c].pc = "done" /\ gate[c].decision = << >>) => gate[c].handlerRuns = 0

\* One invocation ran its handler after the billing service allowed it; another
\* was denied by the service and never ran it.
C8_Witness ==
    /\ gate[1].handlerRuns = 1 /\ gate[1].fetches = <<"check">>
    /\ Len(gate[1].decision) = 1 /\ gate[1].decision[1].allowed
    /\ gate[2].pc = "done" /\ gate[2].fetches = <<"check">>
    /\ Len(gate[2].decision) = 1 /\ ~gate[2].decision[1].allowed
    /\ gate[2].handlerRuns = 0

\* ------------------------------------------------------------------ C9
\* C9: deductCredits is called at most once per invocation, only for a credits
\* requirement and only once the handler of that invocation has completed
\* successfully, with the requirement's credits and the resolved user id; a
\* deduct request is sent only by such a call.
C9_DeductOnlyAfterSuccess ==
    \A c \in 1..MaxGateCalls :
        /\ Len(gate[c].deducts) <= 1
        /\ Cardinality({i \in 1..Len(gate[c].fetches) : gate[c].fetches[i] = "deduct"})
              <= Len(gate[c].deducts)
        /\ gate[c].deducts # << >> =>
              /\ "credits" \in DOMAIN requirement
              /\ gate[c].handler = "fulfilled"
              /\ gate[c].decision # << >> /\ gate[c].decision[1].allowed
              /\ gate[c].deducts[1].credits = requirement.credits
              /\ gate[c].deducts[1].userId = gate[c].userId
              /\ gate[c].userId \notin {Undefined, ""}

\* One invocation deducted 5 credits through the billing service after its
\* handler returned; another, whose handler threw, deducted nothing.
C9_Witness ==
    /\ gate[1].pc = "done" /\ gate[1].fetches = <<"check", "deduct">>
    /\ gate[1].deducts = <<[userId |-> "u1", credits |-> 5]>>
    /\ gate[2].pc = "done" /\ gate[2].handler = "rejected"
    /\ gate[2].deducts = << >>

\* ------------------------------------------------------------------ C10
\* Bypass mode: the SDK is in demo mode, or the payment configuration has testMode.
Bypass ==
    \/ IsDemoMode(globalConfig, envApiKey)
    \/ (~paymentConfig.null /\ paymentConfig.testMode)

BypassStep(c) ==
    /\ gate'[c].fetches = gate[c].fetches
    /\ gate'[c].checks # gate[c].checks =>
          /\ Len(gate'[c].decision) = 1
          /\ gate'[c].decision[1].allowed = TRUE
          /\ gate'[c].decision[1].credits = 9999
    /\ gate'[c].deducts # gate[c].deducts => gate'[c].deducted = <<TRUE>>

\* C10: in bypass mode every billing check allows with 9999 credits, every
\* deduction succeeds at once, and no step of the gate issues a request.
C10_BypassAllowsWithoutNetwork ==
    [][Bypass => \A c \in 1..MaxGateCalls : BypassStep(c)]_vars

\* testMode in production mode: a finished invocation that was allowed with 9999
\* credits and deducted without any request; and the same in demo mode.
C10_Witness ==
    /\ ~paymentConfig.null /\ paymentConfig.testMode
    /\ globalConfig.initialized /\ ~globalConfig.demoMode
    /\ gate[1].pc = "done"
    /\ gate[1].decision = <<[allowed |-> TRUE, credits |-> 9999, tier |-> "test"]>>
    /\ gate[1].deducted = <<TRUE>> /\ gate[1].fetches = << >>
    /\ gate[2].pc = "handler" /\ gate[2].fetches = << >>

\* ------------------------------------------------------------------ C11
\* The classes of the billing denials.
DenialClasses ==
    {"PaymentRequiredError", "InsufficientCreditsError", "SubscriptionRequiredError"}

\* The decision of invocation c was made by checkBilling itself, after its request
\* failed: only such a decision has a reason.
FailedClosed(c) ==
    /\ Len(gate[c].decision) = 1
    /\ "reason" \in DOMAIN gate[c].decision[1]

\* C11: a billing check that ends in a network exception or a non-2xx response is
\* treated as disallowed: the handler does not run, a billing denial is raised, and
\* the decision carries both a denial reason and an action URL.
C11_FailClosedWithReasonAndUrl ==
    \A c \in 1..MaxGateCalls :
        FailedClosed(c) =>
            /\ ~gate[c].decision[1].allowed
            /\ gate[c].handlerRuns = 0
            /\ gate[c].pc = "done"
            /\ Len(gate[c].outcomes) = 1
            /\ gate[c].outcomes[1].settled = "rejected"
            /\ gate[c].outcomes[1].error.class \in DenialClasses
            /\ Truthy(gate[c].decision[1].reason)
            /\ Truthy(gate[c].decision[1].actionUrl)

\* ------------------------------------------------------------------ C12
\* C12: an invocation of the gated tool while no payment configuration has been
\* set (paymentConfig is never set back to null) ends with a ConfigurationError
\* of code -32010, without running the handler and without a billing denial.
\* Stated for the invocations that carry a user id; one without is refused with
\* PaymentRequiredError before the configuration is looked at (C14).
C12_NoConfigRaisesConfigurationError ==
    \A c \in 1..MaxGateCalls :
        (paymentConfig.null /\ gate[c].pc # "idle" /\ Truthy(gate[c].userId)) =>
            /\ gate[c].pc = "done"
            /\ gate[c].handlerRuns = 0
            /\ Len(gate[c].outcomes) = 1
            /\ gate[c].outcomes[1].settled = "rejected"
            /\ gate[c].outcomes[1].error.class = "ConfigurationError"
            /\ gate[c].outcomes[1].error.code = -32010

\* ------------------------------------------------------------------ C13
\* data has field f exactly when value v is truthy, and then holds v.
CarriesIfKnown(data, f, status, g) ==
    IF g \in DOMAIN status /\ Truthy(status[g])
    THEN f \in DOMAIN data /\ data[f] = status[g]
    ELSE f \notin DOMAIN data

\* C13: when the decision disallows, the error is chosen by the requirement alone.
\* credits: InsufficientCreditsError with required = the requirement's credits,
\* available = the decision's credits (0 when it has none) and the decision's
\* action URL; tier: SubscriptionRequiredError with the required tier, the
\* decision's tier and the action URL; otherwise PaymentRequiredError with the
\* action URL and the requirement's price id.
C13_DenialFollowsRequirement ==
    \A c \in 1..MaxGateCalls :
        (Len(gate[c].decision) = 1 /\ ~gate[c].decision[1].allowed) =>
            /\ gate[c].pc = "done"
            /\ Len(gate[c].outcomes) = 1
            /\ gate[c].outcomes[1].settled = "rejected"
            /\ LET status == gate[c].decision[1]
                   e == gate[c].outcomes[1].error
               IN  IF "credits" \in DOMAIN requirement
                   THEN /\ e.class = "InsufficientCreditsError"
                        /\ e.code = -32012
                        /\ e.data.required = requirement.credits
                        /\ e.data.available = IF "credits" \in DOMAIN status
                                              THEN status.credits ELSE 0
                        /\ CarriesIfKnown(e.data, "purchaseUrl", status, "actionUrl")
                   ELSE IF "tier" \in DOMAIN requirement
                   THEN /\ e.class = "SubscriptionRequiredError"
                        /\ e.code = -32013
                        /\ e.data.requiredTier = requirement.tier
                        /\ CarriesIfKnown(e.data, "currentTier", status, "tier")
                        /\ CarriesIfKnown(e.data, "upgradeUrl", status, "actionUrl")
                   ELSE /\ e.class = "PaymentRequiredError"
                        /\ e.code = -32011
                        /\ e.data.tool = "unknown"
                        /\ CarriesIfKnown(e.data, "upgradeUrl", status, "actionUrl")
                        /\ "priceId" \in DOMAIN requirement =>
                              e.data.priceId = requirement.priceId

\* A credits requirement of 5 and a decision {allowed: false, credits: 3, actionUrl}
\* from the billing service: insufficient credits, need 5, have 3.
C13_Witness ==
    /\ requirement = [credits |-> 5]
    /\ gate[1].pc = "done"
    /\ gate[1].decision =
          <<[allowed |-> FALSE, credits |-> 3, actionUrl |-> "https://buy"]>>
    /\ Len(gate[1].outcomes) = 1
    /\ gate[1].outcomes[1].error.message = "Insufficient credits: need 5, have 3"
    /\ gate[1].outcomes[1].error.data =
          [required |-> 5, available |-> 3, purchaseUrl |-> "https://buy"]

\* ------------------------------------------------------------------ C14
\* C14: an invocation for which no user id is resolved (none, or an empty one)
\* ends at once with PaymentRequiredError: checkBilling and deductCredits are not
\* called, no request is sent and the handler does not run.
C14_NoUserIdRaisesAtOnce ==
    \A c \in 1..MaxGateCalls :
        (gate[c].pc # "idle" /\ gate[c].userId \in {Undefined, ""}) =>
            /\ gate[c].pc = "done"
            /\ gate[c].checks = 0
            /\ gate[c].decision = << >>
            /\ gate[c].fetches = << >>
            /\ gate[c].deducts = << >>
            /\ gate[c].handlerRuns = 0
            /\ Len(gate[c].outcomes) = 1
            /\ gate[c].outcomes[1].settled = "rejected"
            /\ gate[c].outcomes[1].error.class = "PaymentRequiredError"
            /\ gate[c].outcomes[1].error.code = -32011

\* With a billing service configured (not a bypass), an input without userId and
\* one with an empty userId were both refused, the first with the upgrade URL.
C14_Witness ==
    /\ globalConfig.initialized /\ ~globalConfig.demoMode
    /\ ~paymentConfig.null /\ ~paymentConfig.testMode
    /\ paymentConfig.upgradeUrl = "https://app/upgrade"
    /\ gate[1].pc = "done" /\ gate[1].userId = Undefined
    /\ Len(gate[1].outcomes) = 1
    /\ gate[1].outcomes[1].error.data =
          [tool |-> "unknown", upgradeUrl |-> "https://app/upgrade"]
    /\ gate[2].pc = "done" /\ gate[2].userId = ""
    /\ gate[2].fetches = << >>

\* ------------------------------------------------------------------ C15
\* C15: when the deduction fails (deductCredits gives false: a non-2xx answer, a
\* network exception), the invocation still resolves with the handler's result,
\* and it called deductCredits once and sent at most one deduct request.
C15_DeductionFailureKeepsResult ==
    \A c \in 1..MaxGateCalls :
        gate[c].deducted = <<FALSE>> =>
            /\ gate[c].pc = "done"
            /\ gate[c].outcomes = <<[settled |-> "resolved", value |-> "result"]>>
            /\ Len(gate[c].deducts) = 1
            /\ Cardinality({i \in 1..Len(gate[c].fetches) :
                              gate[c].fetches[i] = "deduct"}) <= 1

\* The deduct request of a finished invocation failed; the invocation resolved.
C15_Witness ==
    /\ gate[1].pc = "done"
    /\ gate[1].fetches = <<"check", "deduct">>
    /\ gate[1].deducted = <<FALSE>>
    /\ Len(gate[1].outcomes) = 1 /\ gate[1].outcomes[1].settled = "resolved"

\* ------------------------------------------------------------------ C16
\* A step that tracks an event settles no delivery attempt: nothing is delivered
\* or rejected in it, the attempts in flight stay, and the attempt it triggers is
\* still in flight, held by the size trigger, when trackToolCall has returned.
TrackReturnsAtOnce ==
    nextId' = nextId + 1 =>
        /\ delivered' = delivered
        /\ rejection' = rejection
        /\ Len(inflight') \in {Len(inflight), Len(inflight) + 1}
        /\ SubSeq(inflight', 1, Len(inflight)) = inflight
        /\ Len(inflight') = Len(inflight) + 1 => inflight'[Len(inflight')].who = "size"

\* The rejection of a flush that trackToolCall triggered goes to handleError.
SizeFlushFailureIsHandled ==
    (rejection # << >> /\ rejection[1].who = "size") =>
        rejection[1].sink = "handleError"

\* C16: trackToolCall returns without waiting for a delivery attempt to settle,
\* and the failure of the flush it triggered reaches only the internal error
\* handler, never the caller of trackToolCall.
C16_TrackNeverBlocksNorThrows ==
    [][TrackReturnsAtOnce]_vars /\ []SizeFlushFailureIsHandled

\* batchSize 1: the flush triggered by the first event failed after the call had
\* returned; the event is back in the buffer and handleError got the rejection.
C16_Witness ==
    /\ batchSize = 1 /\ nextId = 1
    /\ rejection = <<[who |-> "size", sink |-> "handleError"]>>
    /\ Len(buffer) = 1 /\ buffer[1].id = 1
    /\ inflight = << >>

\* ------------------------------------------------------------------ C17
\* C17: no operation of the pipeline passes a delivery failure on: the rejection
\* of every failed flush, whoever called it (trackToolCall, the timer, shutdown,
\* the process-exit listener, an integrator awaiting flush()), ends in the
\* internal error handler.
C17_NoFailureLeavesThePipeline ==
    rejection # << >> => rejection[1].sink = "handleError"

\* ------------------------------------------------------------------ C18
\* No attempt in flight carries an empty batch.
NoEmptyBatch ==
    \A i \in 1..Len(inflight) : Len(inflight[i].metrics) >= 1

\* C18: flush() on an empty buffer starts no delivery attempt and leaves buffer
\* and timer as they are; no batch without events is ever sent.
C18_EmptyFlushIsNoOp ==
    /\ [][(Flush /\ buffer = << >>) =>
             /\ inflight' = inflight
             /\ buffer' = << >>
             /\ flushTimer' = flushTimer]_vars
    /\ []NoEmptyBatch

\* Everything tracked is delivered and the buffer is empty with the timer still
\* running: flush() and the timer's flush are both no-ops here.
C18_Witness ==
    /\ buffer = << >> /\ inflight = << >>
    /\ nextId = 2 /\ Len(delivered) = 2
    /\ flushTimer
    /\ ENABLED Flush

\* ------------------------------------------------------------------ C19
\* The attempts in flight that the timer started.
TimerAttempts(fl) == {i \in 1..Len(fl) : fl[i].who = "timer"}

\* C19: shutdown() cancels the timer and starts one flush attempt of the whole
\* buffer, none when the buffer is empty; once the timer is cancelled it stays
\* cancelled and no timer-triggered flush starts.
C19_ShutdownCancelsTimerAndFlushesOnce ==
    [][/\ Shutdown =>
             /\ flushTimer' = FALSE
             /\ shutdownAt' # << >>
             /\ buffer' = << >>
             /\ inflight' = IF buffer = << >> THEN inflight
                            ELSE Append(inflight, [who |-> "shutdown", metrics |-> buffer])
       /\ shutdownAt # << >> =>
             /\ flushTimer' = FALSE
             /\ Cardinality(TimerAttempts(inflight')) <= Cardinality(TimerAttempts(inflight))
      ]_vars

\* After shutdown() the final flush of two events is in flight, the timer is
\* cancelled, and an event tracked since then waits in the buffer.
C19_Witness ==
    /\ batchSize = 3
    /\ shutdownAt = <<2>> /\ ~flushTimer
    /\ Len(inflight) = 1 /\ inflight[1].who = "shutdown"
    /\ Len(inflight[1].metrics) = 2
    /\ Len(buffer) = 1 /\ buffer[1].id = 3

\* ------------------------------------------------------------------ C20
\* No delivery attempt is in flight: the final flush of shutdown() has settled,
\* and so has every attempt started before or after it.
FinalFlushSettled == inflight = << >>

FinalFlushSettles(i) ==
    /\ i \in 1..Len(inflight)
    /\ inflight[i].who = "shutdown"
    /\ inflight' = RemoveAt(inflight, i)

InitSignals ==
    /\ InitTel
    /\ batchSize = 2

NextSignals ==
    \/ TrackToolCall(FALSE, "boom")
    \/ TimerFlush
    \/ Flush
    \/ Shutdown
    \/ BeforeExit
    \/ Signal
    \/ \E i \in 1..Len(inflight) : \E r \in FetchResponses : FetchSettles(i, r)

SpecSignals == InitSignals /\ [][NextSignals]_vars

\* ------------------------------------------------------------------ C21
\* C21: the process has exited only when the final flush is over: no flush
\* started by a signal is still in flight (a signal does start a flush of the
\* buffered events whenever there are any, see Signal).
C21_ExitOnlyAfterFinalFlush ==
    exited => \A i \in 1..Len(inflight) : inflight[i].who # "signal"

\* ------------------------------------------------- the pipeline that keeps running
\* The pipeline while shutdown() is not called and no signal arrives: the
\* interval stays active.
NextRunning ==
    \/ TrackToolCall(FALSE, "boom")
    \/ TimerFlush
    \/ Flush
    \/ \E i \in 1..Len(inflight) : \E r \in FetchResponses : FetchSettles(i, r)

\* Some delivery attempt is answered 2xx.
SomeDelivery == \E i \in 1..Len(inflight) : FetchSettles(i, "ok")

\* setInterval keeps calling flush(); the collector is not down forever: as long
\* as attempts keep being made, one of them is answered 2xx.
FairSpecTel ==
    /\ InitTel
    /\ [][NextRunning]_vars
    /\ WF_vars(TimerFlush)
    /\ SF_vars(SomeDelivery)

\* ------------------------------------------------------------------ C22
\* C22: while the timer keeps firing and the transport does not fail forever,
\* every event tracked is eventually delivered, whatever attempts failed before.
C22_EveryEventEventuallyDelivered ==
    \A id \in 1..MaxEvents : (nextId >= id) ~> (CountIn(delivered, id) = 1)

\* All three events are delivered although an attempt made by the timer failed.
C22_Witness ==
    /\ nextId = 3 /\ Len(delivered) = 3
    /\ buffer = << >> /\ inflight = << >>
    /\ rejection = <<[who |-> "timer", sink |-> "handleError"]>>

\* ------------------------------------------------- the demo pipeline alone
\* new DemoTelemetry(serverName): the constructor sets the fields and logs; it
\* sets no interval and registers no listener.
InitDemo ==
    /\ globalConfig = DemoConfig
    /\ envApiKey = Undefined
    /\ globalTelemetry = "DemoTelemetry"
    /\ batchSize \in 1..MaxBatchSize
    /\ buffer = << >>
    /\ flushTimer = FALSE
    /\ inflight = << >>
    /\ delivered = << >>
    /\ nextId = 0
    /\ rejection = << >>
    /\ shutdownAt = << >>
    /\ replacedTimers = 0
    /\ exited = FALSE
    /\ LibIdle
    /\ WrapIdle
    /\ PayIdle

NextDemo ==
    \/ \E success \in BOOLEAN : \E error \in {Undefined, "boom"} :
          DemoTrackToolCall(success, error)
    \/ DemoFlush
    \/ DemoShutdown

SpecDemo == InitDemo /\ [][NextDemo]_vars

\* ------------------------------------------------------------------ C23
\* No request is ever in flight, nothing was ever sent and no call has failed.
DemoNeverSendsNorFails ==
    /\ inflight = << >>
    /\ delivered = << >>
    /\ rejection = << >>
    /\ ~flushTimer

\* A call of trackToolCall adds exactly the new event at the end of the buffer.
DemoTrackAppendsOne ==
    nextId' # nextId =>
        /\ Len(buffer') = Len(buffer) + 1
        /\ SubSeq(buffer', 1, Len(buffer)) = buffer
        /\ buffer'[Len(buffer')].id = nextId'

\* Whatever is buffered, flush() can be called and leaves the buffer empty.
DemoFlushEmpties == ENABLED (DemoFlush /\ buffer' = << >>)

\* C23: the demo pipeline never makes a network call and cannot fail:
\* trackToolCall appends exactly one event and never flushes, flush() always
\* leaves the buffer empty, and shutdown() leaves the buffered events as they are.
C23_DemoPipelineIsLocal ==
    /\ []DemoNeverSendsNorFails
    /\ []DemoFlushEmpties
    /\ [][DemoTrackAppendsOne]_vars
    /\ [][DemoFlush => buffer' = << >>]_vars
    /\ [][DemoShutdown => buffer' = buffer]_vars

\* Two events were flushed away locally and a third one is buffered.
C23_Witness ==
    /\ globalTelemetry = "DemoTelemetry"
    /\ nextId = 3
    /\ Len(buffer) = 1 /\ buffer[1].id = 3
    /\ inflight = << >> /\ delivered = << >>

\* =========================================================== sanitizeInput
\* A key is the sequence of its characters.
Upper == <<"A", "B", "C", "D", "E", "F", "G", "H", "I", "J", "K", "L", "M",
           "N", "O", "P", "Q", "R", "S", "T", "U", "V", "W", "X", "Y", "Z">>
Lower == <<"a", "b", "c", "d", "e", "f", "g", "h", "i", "j", "k", "l", "m",
           "n", "o", "p", "q", "r", "s", "t", "u", "v", "w", "x", "y", "z">>

\* String.prototype.toLowerCase
ToLowerCaseNone(key) == key
ToLowerCase(key) ==
    [i \in 1..Len(key) |->
        IF \E j \in 1..Len(Upper) : Upper[j] = key[i]
        THEN Lower[CHOOSE j \in 1..Len(Upper) : Upper[j] = key[i]]
        ELSE key[i]]

\* String.prototype.includes
Includes(s, k) ==
    \E i \in 1..(Len(s) - Len(k) + 1) : SubSeq(s, i, i + Len(k) - 1) = k

\* `const sensitiveKeys = ['password', 'token', 'secret', 'key', 'auth', 'credential']`
SensitiveKeys ==
    {<<"p", "a", "s", "s", "w", "o", "r", "d">>,
     <<"t", "o", "k", "e", "n">>,
     <<"s", "e", "c", "r", "e", "t">>,
     <<"k", "e", "y">>,
     <<"a", "u", "t", "h">>,
     <<"c", "r", "e", "d", "e", "n", "t", "i", "a", "l">>}

\* `sensitiveKeys.some(k => key.toLowerCase().includes(k))`
IsSensitive(key) == \E k \in SensitiveKeys : Includes(ToLowerCase(key), k)

\* Values: strings, booleans, null, and objects (the sequence of their entries,
\* in the order of Object.entries).
Str(v) == [type |-> "string", value |-> v]
Bool(v) == [type |-> "boolean", value |-> IF v THEN "true" ELSE "false"]
NullValue == [type |-> "null"]
Obj(entries) == [type |-> "object", entries |-> entries]
Redacted == Str("[REDACTED]")

\* sanitizeInput(input): anything but an object is returned as it is; of an
\* object a new object is built, entry by entry.
SanitizeInput(input) ==
    IF input.type # "object" THEN input
    ELSE Obj([i \in 1..Len(input.entries) |->
                 IF IsSensitive(input.entries[i].key)
                 THEN [key |-> input.entries[i].key, value |-> Redacted]
                 ELSE [key |-> input.entries[i].key,
                       value |-> input.entries[i].value]])

\* The keys and the values the inputs are built of: token, password, apiKey,
\* AUTH, author, mySecret, credentials, ok, nested, pass; a string, a boolean,
\* the object {password: "hunter2"}.
InputKeys ==
    {<<"t", "o", "k", "e", "n">>,
     <<"p", "a", "s", "s", "w", "o", "r", "d">>,
     <<"a", "p", "i", "K", "e", "y">>,
     <<"A", "U", "T", "H">>,
     <<"a", "u", "t", "h", "o", "r">>,
     <<"m", "y", "S", "e", "c", "r", "e", "t">>,
     <<"c", "r", "e", "d", "e", "n", "t", "i", "a", "l", "s">>,
     <<"o", "k">>,
     <<"n", "e", "s", "t", "e", "d">>,
     <<"p", "a", "s", "s">>}
InputValues ==
    {Str("secret"), Bool(TRUE),
     Obj(<<[key |-> <<"p", "a", "s", "s", "w", "o", "r", "d">>,
            value |-> Str("hunter2")]>>)}

\* The inputs of a tool: objects of at most MaxEntries entries with distinct
\* keys, a string, null.
InputObjects ==
    {Obj(es) : es \in
        {s \in UNION {[1..n -> [key : InputKeys, value : InputValues]] :
                          n \in 0..MaxEntries} :
            \A i, j \in 1..Len(s) : i # j => s[i].key # s[j].key}}
ToolInputs == InputObjects \cup {Str("plain"), NullValue}

\* The wrapped tool is about to be invoked with an input.
InitLog ==
    /\ sanitized \in {<<[pc |-> "start", input |-> i]>> : i \in ToolInputs}
    /\ thrown = << >>
    /\ health = << >>
    /\ validation = << >>
    /\ globalConfig = ProductionConfig
    /\ envApiKey = Undefined
    /\ globalTelemetry = "null"
    /\ batchSize = 1
    /\ buffer = << >>
    /\ flushTimer = FALSE
    /\ inflight = << >>
    /\ delivered = << >>
    /\ nextId = 0
    /\ rejection = << >>
    /\ shutdownAt = << >>
    /\ replacedTimers = 0
    /\ exited = FALSE
    /\ WrapIdle
    /\ PayIdle

\* The start of an invocation: `log.info('Tool invoked', { tool: name, input:
\* sanitizeInput(input) })`, and then `handler(input, ctx)` with the input
\* object itself, which sanitizeInput never writes to.
LogInvoked ==
    /\ sanitized # << >>
    /\ sanitized[1].pc = "start"
    /\ sanitized' = <<[pc |-> "logged",
                       input |-> sanitized[1].input,
                       logged |-> SanitizeInput(sanitized[1].input),
                       handlerInput |-> sanitized[1].input]>>
    /\ UNCHANGED <<cfgVars, telVars, wrapVars, payVars, exited, thrown, health,
                   validation>>

SpecLog == InitLog /\ [][LogInvoked]_vars

\* ------------------------------------------------------------------ C25
\* The keys of the inputs, by name.
KeyToken == <<"t", "o", "k", "e", "n">>
KeyPassword == <<"p", "a", "s", "s", "w", "o", "r", "d">>
KeyApiKey == <<"a", "p", "i", "K", "e", "y">>
KeyAUTH == <<"A", "U", "T", "H">>
KeyAuthor == <<"a", "u", "t", "h", "o", "r">>
KeyMySecret == <<"m", "y", "S", "e", "c", "r", "e", "t">>
KeyCredentials == <<"c", "r", "e", "d", "e", "n", "t", "i", "a", "l", "s">>
KeyOk == <<"o", "k">>
KeyNested == <<"n", "e", "s", "t", "e", "d">>
KeyPass == <<"p", "a", "s", "s">>
NestedValue == Obj(<<[key |-> KeyPassword, value |-> Str("hunter2")]>>)

\* The keys of InputKeys whose lower-cased name contains one of the six words.
KeysToRedact ==
    {KeyToken, KeyPassword, KeyApiKey, KeyAUTH, KeyAuthor, KeyMySecret,
     KeyCredentials}

ExampleInput ==
    Obj(<<[key |-> KeyToken, value |-> Str("secret")],
          [key |-> KeyNested, value |-> NestedValue]>>)

\* C25: the logged input has the entries of the input, the value of every
\* top-level key whose lower-cased name contains password, token, secret, key,
\* auth or credential replaced by '[REDACTED]' and every other value as it is,
\* nested objects included; the handler receives the input unmodified.
C25_LoggedInputIsRedactedAtTopLevel ==
    (sanitized # << >> /\ sanitized[1].pc = "logged") =>
        LET in == sanitized[1].input
            out == sanitized[1].logged
        IN  /\ sanitized[1].handlerInput = in
            /\ in.type = "object" =>
                  /\ out.type = "object"
                  /\ Len(out.entries) = Len(in.entries)
                  /\ \A i \in 1..Len(in.entries) :
                        /\ out.entries[i].key = in.entries[i].key
                        /\ out.entries[i].value =
                              IF in.entries[i].key \in KeysToRedact THEN Redacted
                              ELSE in.entries[i].value
            /\ in = ExampleInput =>
                  out = Obj(<<[key |-> KeyToken, value |-> Redacted],
                              [key |-> KeyNested, value |-> NestedValue]>>)

\* {token, nested: {password}} has been logged: token redacted, nested as it is.
C25_Witness ==
    /\ sanitized # << >>
    /\ sanitized[1].pc = "logged"
    /\ sanitized[1].input = ExampleInput
    /\ sanitized[1].logged.entries[1].value = Redacted
    /\ sanitized[1].logged.entries[2].value.entries[1].value = Str("hunter2")

\* ================================================= the SDK's configuration
\* The arguments of a direct call of initOpenConductor: apiKey absent, given
\* (possibly as undefined or as the empty string), demoMode absent or given.
ConfigArguments ==
    {[quiet |-> TRUE],
     [apiKey |-> "key"], [apiKey |-> "key2"], [apiKey |-> ""],
     [apiKey |-> Undefined],
     [demoMode |-> TRUE], [demoMode |-> FALSE],
     [apiKey |-> "key", demoMode |-> TRUE],
     [apiKey |-> "key", demoMode |-> FALSE]}

\* process.env.OPENCONDUCTOR_API_KEY: unset, empty, or a key.
EnvValues == {Undefined, "", "env-key"}

\* The process (a test, a launcher) sets or deletes the environment variable.
SetEnv(v) ==
    /\ envApiKey' = v
    /\ UNCHANGED <<globalConfig, telVars, wrapVars, payVars, exited, libVars>>

\* A call of getConfig() by the integrator.
GetConfigCall ==
    /\ globalConfig' = GetConfig(globalConfig, envApiKey)
    /\ UNCHANGED <<envApiKey, telVars, wrapVars, payVars, exited, libVars>>

\* A call of isDemoMode() by the integrator.
IsDemoModeCall ==
    /\ globalConfig' = GetConfig(globalConfig, envApiKey)
    /\ UNCHANGED <<envApiKey, telVars, wrapVars, payVars, exited, libVars>>

\* The arguments of initTelemetry: none, or a TelemetryConfig.
TelemetryArguments ==
    {[none |-> TRUE]}
    \cup {[apiKey |-> "key", batchSize |-> b] : b \in 1..MaxBatchSize}

\* initTelemetry(config): getConfig(), then a DemoTelemetry in demo mode; in
\* production mode an Error without an apiKey, else a new Telemetry, whose
\* constructor starts the interval. globalTelemetry is assigned the new
\* instance; nothing is called on the instance it held, whose interval, if
\* active, stays active.
InitTelemetry(config) ==
    LET sdkConfig == GetConfig(globalConfig, envApiKey)
        creates == IsDemoMode(sdkConfig, envApiKey) \/ "apiKey" \in DOMAIN config
        leaves == IF creates /\ globalTelemetry = "Telemetry" /\ flushTimer
                  THEN 1 ELSE 0
    IN  /\ replacedTimers + leaves <= MaxReplaced
        /\ replacedTimers' = replacedTimers + leaves
        /\ globalConfig' = sdkConfig
        /\ IF IsDemoMode(sdkConfig, envApiKey)
           THEN /\ globalTelemetry' = "DemoTelemetry"
                /\ flushTimer' = FALSE
                /\ buffer' = << >>
                /\ UNCHANGED batchSize
           ELSE IF "apiKey" \notin DOMAIN config
           THEN UNCHANGED <<globalTelemetry, flushTimer, buffer, batchSize>>
           ELSE /\ globalTelemetry' = "Telemetry"
                /\ flushTimer' = TRUE
                /\ buffer' = << >>
                /\ batchSize' = config.batchSize
        /\ UNCHANGED <<inflight, delivered, nextId, rejection, shutdownAt>>
        /\ UNCHANGED <<envApiKey, wrapVars, payVars, exited, libVars>>

\* The SDK as imported: nothing is initialized.
InitCfg ==
    /\ globalConfig = UninitializedConfig
    /\ envApiKey \in EnvValues
    /\ globalTelemetry = "null"
    /\ batchSize = 1
    /\ buffer = << >>
    /\ flushTimer = FALSE
    /\ inflight = << >>
    /\ delivered = << >>
    /\ nextId = 0
    /\ rejection = << >>
    /\ shutdownAt = << >>
    /\ replacedTimers = 0
    /\ exited = FALSE
    /\ LibIdle
    /\ WrapIdle
    /\ PayIdle

NextCfg ==
    \/ \E config \in ConfigArguments : InitOpenConductor(config)
    \/ GetConfigCall
    \/ IsDemoModeCall
    \/ ResetConfig
    \/ \E v \in EnvValues : SetEnv(v)
    \/ \E config \in TelemetryArguments : InitTelemetry(config)

SpecCfg == InitCfg /\ [][NextCfg]_vars

\* ------------------------------------------------------------------ C26
\* demoMode was forced by the argument of initOpenConductor.
DemoForced(config) == "demoMode" \in DOMAIN config /\ config.demoMode

\* The API key available to an initialization: the argument if one is given,
\* else the environment variable.
KeyAvailable(config, env) ==
    IF "apiKey" \in DOMAIN config /\ config.apiKey \notin {Undefined, Null}
    THEN config.apiKey
    ELSE env

\* What an initialization with config leaves, as far as the mode goes.
ModeFollows(config, env, cfg) ==
    /\ cfg.initialized
    /\ cfg.demoMode <=> (DemoForced(config) \/ KeyAvailable(config, env) \in {Undefined, Null, ""})

\* In the current state a call of initOpenConductor with any argument leaves
\* the mode that follows from the argument and the environment.
EveryInitSetsTheMode ==
    \A config \in ConfigArguments :
        ENABLED (InitOpenConductor(config)
                 /\ ModeFollows(config, envApiKey, globalConfig'))

\* No other operation can change an initialized configuration; an
\* uninitialized one is initialized by getConfig, isDemoMode and initTelemetry
\* as by initOpenConductor without arguments.
OnlyInitChangesTheMode ==
    /\ ~ ENABLED ((GetConfigCall \/ IsDemoModeCall
                      \/ (\E v \in EnvValues : SetEnv(v))
                      \/ (\E config \in TelemetryArguments : InitTelemetry(config)))
                  /\ globalConfig.initialized
                  /\ globalConfig' # globalConfig)
    /\ ~ ENABLED ((GetConfigCall \/ IsDemoModeCall
                      \/ (\E config \in TelemetryArguments : InitTelemetry(config)))
                  /\ ~globalConfig.initialized
                  /\ ~ModeFollows([quiet |-> TRUE], envApiKey, globalConfig'))

\* C26: whatever was called before, an initialized configuration has the mode
\* its last initialization gave it: demo mode exactly when demoMode was forced
\* or no API key was available (the argument first, the environment variable
\* second); and its apiKey is null exactly when it is in demo mode.
C26_DemoModeIffForcedOrNoKey ==
    /\ globalConfig.initialized =>
          (globalConfig.apiKey = Null <=> globalConfig.demoMode)
    /\ EveryInitSetsTheMode
    /\ OnlyInitChangesTheMode

\* Initialized with a key and demoMode forced, with a key in the environment.
C26_Witness ==
    /\ globalConfig.initialized /\ globalConfig.demoMode
    /\ globalConfig.apiKey = Null
    /\ envApiKey = "env-key"
    /\ globalTelemetry = "DemoTelemetry"

\* ------------------------------------------------------------------ C27
\* getConfig() and isDemoMode() can be called, and leave an initialized SDK.
AccessorsInitialize ==
    /\ ENABLED (GetConfigCall /\ globalConfig'.initialized)
    /\ ENABLED (IsDemoModeCall /\ globalConfig'.initialized)
    /\ ~globalConfig.initialized =>
          /\ GetConfig(globalConfig, envApiKey).initialized
          /\ GetConfig(globalConfig, envApiKey).demoMode
                 <=> envApiKey \in {Undefined, ""}
          /\ IsDemoMode(globalConfig, envApiKey) <=> envApiKey \in {Undefined, ""}

\* On an initialized SDK they return what is stored and change nothing.
AccessorsReturnTheStored ==
    globalConfig.initialized =>
        /\ GetConfig(globalConfig, envApiKey) = globalConfig
        /\ IsDemoMode(globalConfig, envApiKey) = globalConfig.demoMode
        /\ ~ ENABLED ((GetConfigCall \/ IsDemoModeCall) /\ vars' # vars)

\* C27: getConfig() and isDemoMode() never fail: they initialize an
\* uninitialized SDK (in demo mode when no API key is available), and return
\* the stored configuration of an initialized one without changing anything;
\* resetConfig() always leaves the SDK uninitialized.
C27_AccessorsNeverFailResetUninitializes ==
    /\ AccessorsInitialize
    /\ AccessorsReturnTheStored
    /\ ENABLED (ResetConfig /\ ~globalConfig'.initialized
                            /\ globalConfig' = UninitializedConfig)

\* The SDK initialized itself in production mode from the environment, after a
\* reset: a pipeline built earlier in demo mode is still there.
C27_Witness ==
    /\ globalConfig = [initialized |-> TRUE, demoMode |-> FALSE, apiKey |-> "env-key"]
    /\ globalTelemetry = "DemoTelemetry"

\* ======================================================= the error taxonomy
\* The errors an integrator can build: every class, with each of its optional
\* arguments left out, passed empty and passed.
ErrorsBuilt ==
    LET Names == {"search", "fetch"}
        Reasons == {"Required", "Connection refused"}
        OptionalStrings == {Undefined, "", "x"}
    IN
    {ValidationError(f, r, v) : f \in Names, r \in Reasons,
                                 v \in {<< >>, <<"">>, <<"x">>}}
    \cup {ToolNotFoundError(t) : t \in Names}
    \cup {ToolExecutionError(t, r, c) : t \in Names, r \in Reasons,
              c \in {NoError, [class |-> "Error", message |-> "boom"]}}
    \cup {ResourceNotFoundError(u) : u \in Names}
    \cup {AuthenticationError(r) : r \in OptionalStrings}
    \cup {AuthorizationError(a, r) : a \in Names, r \in OptionalStrings}
    \cup {RateLimitError(ms) : ms \in {<< >>, <<0>>, <<60000>>}}
    \cup {TimeoutError(o, ms) : o \in Names, ms \in {50, DefaultTimeout}}
    \cup {DependencyError(d, r) : d \in Names, r \in Reasons}
    \cup {ConfigurationError(s, r) : s \in Names, r \in Reasons}
    \cup {PaymentRequiredError(t, u, p) : t \in Names, u \in OptionalStrings,
              p \in OptionalStrings}
    \cup {InsufficientCreditsError(r, a, u) : r \in {5, 10}, a \in {0, 3},
              u \in OptionalStrings}
    \cup {SubscriptionRequiredError(t, c, u) : t \in Names, c \in OptionalStrings,
              u \in OptionalStrings}

\* `new XError(...)`: the error is built; it is immutable from then on.
Construct(e) ==
    /\ thrown' = <<[error |-> e]>>
    /\ UNCHANGED <<cfgVars, telVars, wrapVars, payVars, exited, sanitized, health,
                   validation>>

\* error.toJSON() on the error built last.
ToJSONCall ==
    /\ thrown # << >>
    /\ thrown' = <<[error |-> thrown[1].error, json |-> ToJSON(thrown[1].error)]>>
    /\ UNCHANGED <<cfgVars, telVars, wrapVars, payVars, exited, sanitized, health,
                   validation>>

InitErr ==
    /\ thrown = << >>
    /\ sanitized = << >>
    /\ health = << >>
    /\ validation = << >>
    /\ globalConfig = ProductionConfig
    /\ envApiKey = Undefined
    /\ globalTelemetry = "null"
    /\ batchSize = 1
    /\ buffer = << >>
    /\ flushTimer = FALSE
    /\ inflight = << >>
    /\ delivered = << >>
    /\ nextId = 0
    /\ rejection = << >>
    /\ shutdownAt = << >>
    /\ replacedTimers = 0
    /\ exited = FALSE
    /\ WrapIdle
    /\ PayIdle

NextErr ==
    \/ \E e \in ErrorsBuilt : Construct(e)
    \/ ToJSONCall

SpecErr == InitErr /\ [][NextErr]_vars

\* ------------------------------------------------------------------ C28
\* The error was built with a structured payload that is not empty.
PayloadSupplied(e) == e.data # NoData /\ DOMAIN e.data # {}

\* C28: toJSON() returns exactly the code, the message and, only when a
\* structured payload was supplied, data: the data key is left out when the
\* payload is empty and is a non-empty object otherwise.
C28_ToJSONOmitsEmptyData ==
    (thrown # << >> /\ "json" \in DOMAIN thrown[1]) =>
        LET e == thrown[1].error
            json == thrown[1].json
        IN  /\ DOMAIN json \subseteq {"code", "message", "data"}
            /\ json.code = e.code
            /\ json.message = e.message
            /\ "data" \in DOMAIN json <=> PayloadSupplied(e)
            /\ "data" \in DOMAIN json =>
                  /\ json.data = e.data
                  /\ DOMAIN json.data # {}

\* ------------------------------------------------------------------ C29
\* The registry: the code of each class.
RegistryCode(class) ==
    CASE class = "ValidationError" -> -32602
      [] class = "ToolNotFoundError" -> -32001
      [] class = "ToolExecutionError" -> -32002
      [] class = "ResourceNotFoundError" -> -32003
      [] class = "AuthenticationError" -> -32004
      [] class = "AuthorizationError" -> -32005
      [] class = "RateLimitError" -> -32006
      [] class = "TimeoutError" -> -32007
      [] class = "DependencyError" -> -32009
      [] class = "ConfigurationError" -> -32010
      [] class = "PaymentRequiredError" -> -32011
      [] class = "InsufficientCreditsError" -> -32012
      [] class = "SubscriptionRequiredError" -> -32013

\* C29: every error built carries the code the registry gives its class,
\* whatever its arguments and its message, and toJSON() reports that code.
C29_CodeIsFixedPerVariant ==
    thrown # << >> =>
        /\ thrown[1].error.class \in MCPErrorClasses \ {"MCPError"}
        /\ thrown[1].error.code = RegistryCode(thrown[1].error.class)
        /\ "json" \in DOMAIN thrown[1] =>
              thrown[1].json.code = RegistryCode(thrown[1].error.class)

\* A rate-limit error with retry-after has been built and projected.
C29_Witness ==
    /\ thrown # << >>
    /\ "json" \in DOMAIN thrown[1]
    /\ thrown[1].error.class = "RateLimitError"
    /\ thrown[1].json = [code |-> -32006, message |-> "Rate limit exceeded",
                         data |-> [retryAfterMs |-> 60000]]

\* ======================================================== createHealthCheck
\* What a configured check does when it is called: return true or false (or a
\* promise of it), throw, or return a promise that rejects.
CheckBehaviours == {"true", "false", "throws", "rejects"}

\* info.checks, in the order of Object.entries: absent, or up to MaxChecks
\* checks; info.uptime: absent, a function that returns, a function that throws.
HealthInfos ==
    {[uptime |-> u] : u \in {"none", "returns", "throws"}}
    \cup {[uptime |-> u, checks |-> cs] :
              u \in {"none", "returns", "throws"},
              cs \in UNION {[1..n -> CheckBehaviours] : n \in 0..MaxChecks}}

ChecksOf(info) == IF "checks" \in DOMAIN info THEN info.checks ELSE << >>

\* `try { checks[name] = await check(); if (!checks[name]) allHealthy = false }
\*  catch { checks[name] = false; allHealthy = false }`: the value recorded.
CheckValue(behaviour) == behaviour = "true"

\* The loop goes on to the next entry, after a return and after a catch.
NextCheckStopAtThrow(i, n, behaviour) ==
    IF behaviour \in {"throws", "rejects"} THEN n + 1 ELSE i + 1
NextCheck(i, n, behaviour) == i + 1

\* `status: allHealthy ? 'healthy' : 'degraded'`
StatusOf(allHealthy) == IF allHealthy THEN "healthy" ELSE "degraded"

\* The function returned by createHealthCheck(info) is called.
HealthCheckCall(info) ==
    /\ health = << >>
    /\ validation = << >>
    /\ health' = <<[info |-> info, pc |-> "running", i |-> 1, checks |-> << >>,
                    allHealthy |-> TRUE,
                    runs |-> [k \in 1..Len(ChecksOf(info)) |-> 0]]>>
    /\ UNCHANGED <<cfgVars, telVars, wrapVars, payVars, exited, sanitized, thrown,
                   validation>>

\* One turn of the loop: the i-th check is called and awaited, its value recorded.
RunCheck ==
    /\ health # << >>
    /\ health[1].pc = "running"
    /\ health[1].i <= Len(ChecksOf(health[1].info))
    /\ LET h == health[1]
           behaviour == ChecksOf(h.info)[h.i]
       IN  health' = <<[h EXCEPT
                          !.runs[h.i] = @ + 1,
                          !.checks = Append(@, CheckValue(behaviour)),
                          !.allHealthy = @ /\ CheckValue(behaviour),
                          !.i = NextCheck(h.i, Len(ChecksOf(h.info)), behaviour)]>>
    /\ UNCHANGED <<cfgVars, telVars, wrapVars, payVars, exited, sanitized, thrown,
                   validation>>

\* After the loop the response is built; info.uptime() is called outside any
\* try, so an uptime function that throws rejects the health check.
HealthResponse(h) ==
    LET base == [status |-> StatusOf(h.allHealthy)]
        withUptime == IF h.info.uptime = "returns"
                      THEN [status |-> base.status, uptime |-> "uptime"]
                      ELSE base
    IN  IF Len(h.checks) > 0
        THEN IF "uptime" \in DOMAIN withUptime
             THEN [status |-> base.status, uptime |-> "uptime", checks |-> h.checks]
             ELSE [status |-> base.status, checks |-> h.checks]
        ELSE withUptime

HealthCheckReturns ==
    /\ health # << >>
    /\ health[1].pc = "running"
    /\ health[1].i > Len(ChecksOf(health[1].info))
    /\ health' =
          IF health[1].info.uptime = "throws"
          THEN <<[health[1] EXCEPT !.pc = "rejected"]>>
          ELSE <<[info |-> health[1].info, pc |-> "done", i |-> health[1].i,
                  checks |-> health[1].checks, allHealthy |-> health[1].allHealthy,
                  runs |-> health[1].runs, response |-> HealthResponse(health[1])]>>
    /\ UNCHANGED <<cfgVars, telVars, wrapVars, payVars, exited, sanitized, thrown,
                   validation>>

InitHealth ==
    /\ health = << >>
    /\ validation = << >>
    /\ sanitized = << >>
    /\ thrown = << >>
    /\ globalConfig = ProductionConfig
    /\ envApiKey = Undefined
    /\ globalTelemetry = "null"
    /\ batchSize = 1
    /\ buffer = << >>
    /\ flushTimer = FALSE
    /\ inflight = << >>
    /\ delivered = << >>
    /\ nextId = 0
    /\ rejection = << >>
    /\ shutdownAt = << >>
    /\ replacedTimers = 0
    /\ exited = FALSE
    /\ WrapIdle
    /\ PayIdle

NextHealth ==
    \/ \E info \in HealthInfos : HealthCheckCall(info)
    \/ RunCheck
    \/ HealthCheckReturns

SpecHealth == InitHealth /\ [][NextHealth]_vars

\* ------------------------------------------------------------------ C30
\* C30: the health check runs every configured check exactly once, a check that
\* throws or returns false being recorded as false without stopping the others;
\* the status is 'healthy' exactly when every check returned true (also when
\* there are none) and 'degraded' otherwise.
C30_EveryCheckRunsOnceStatusFollows ==
    health # << >> =>
        LET h == health[1]
            cs == ChecksOf(h.info)
        IN  /\ \A k \in 1..Len(cs) : h.runs[k] <= 1
            /\ h.pc \in {"done", "rejected"} =>
                  /\ \A k \in 1..Len(cs) : h.runs[k] = 1
                  /\ Len(h.checks) = Len(cs)
                  /\ \A k \in 1..Len(cs) : h.checks[k] = (cs[k] = "true")
            /\ h.pc = "done" =>
                  /\ h.response.status \in {"healthy", "degraded"}
                  /\ h.response.status = "healthy" <=>
                         \A k \in 1..Len(cs) : cs[k] = "true"

\* The first check threw, the second returned false, the third true: all three
\* were run and the status is degraded.
C30_Witness ==
    /\ health # << >>
    /\ health[1].pc = "done"
    /\ ChecksOf(health[1].info) = <<"throws", "false", "true">>
    /\ health[1].response.checks = <<FALSE, FALSE, TRUE>>
    /\ health[1].response.status = "degraded"

\* ============================================================ validateInput
\* A number. An input object is a function from its keys to values; any other
\* input is a value (it has a type).
Num(n) == [type |-> "number", num |-> n]
IsObjectInput(input) == "type" \notin DOMAIN input

\* schema.safeParse(input) for z.object({query: schemas.nonEmptyString, limit:
\* schemas.limit}), and schema.strict().safeParse(input) when strict: the
\* issues in the order zod reports them (the keys of the shape in their order,
\* then the unrecognized keys), and the parsed data with the default applied and
\* the unknown keys stripped.
SafeParse(input, strict) ==
    IF ~IsObjectInput(input)
    THEN [success |-> FALSE,
          errors |-> <<[path |-> << >>, message |-> "Expected object, received string"]>>]
    ELSE
    LET has(k) == k \in DOMAIN input
        queryIssue ==
            IF ~has("query") THEN <<[path |-> <<"query">>, message |-> "Required"]>>
            ELSE IF input.query.type # "string"
            THEN <<[path |-> <<"query">>, message |-> "Expected string, received number"]>>
            ELSE IF input.query.value = ""
            THEN <<[path |-> <<"query">>, message |-> "Cannot be empty"]>>
            ELSE << >>
        limitIssue ==
            IF ~has("limit") THEN << >>
            ELSE IF input.limit.type # "number"
            THEN <<[path |-> <<"limit">>, message |-> "Expected number, received string"]>>
            ELSE IF input.limit.num < 1
            THEN <<[path |-> <<"limit">>,
                    message |-> "Number must be greater than or equal to 1"]>>
            ELSE IF input.limit.num > 100
            THEN <<[path |-> <<"limit">>,
                    message |-> "Number must be less than or equal to 100"]>>
            ELSE << >>
        unknownIssue ==
            IF strict /\ DOMAIN input \ {"query", "limit"} # {}
            THEN <<[path |-> << >>, message |-> "Unrecognized key(s) in object"]>>
            ELSE << >>
        issues == queryIssue \o limitIssue \o unknownIssue
    IN  IF issues # << >> THEN [success |-> FALSE, errors |-> issues]
        ELSE [success |-> TRUE,
              data |-> [query |-> input.query,
                        limit |-> IF has("limit") THEN input.limit ELSE Num(10)]]

\* `const firstError = result.error.errors[0]`
LastError(errors) == errors[Len(errors)]
FirstError(errors) == errors[1]

\* validate(schema, input, options): the parsed data, or the ValidationError it
\* throws: field is the joined path or 'input', value what the input holds there.
Validate(input, stripUnknown) ==
    LET result == SafeParse(input, ~stripUnknown)
    IN  IF ~result.success
        THEN LET firstError == FirstError(result.errors)
                 field == IF firstError.path = << >> THEN "input"
                          ELSE firstError.path[1]
                 value == IF firstError.path = << >> THEN <<input>>
                          ELSE IF firstError.path[1] \in DOMAIN input
                          THEN <<input[firstError.path[1]]>>
                          ELSE << >>
             IN  [threw |-> TRUE,
                  error |-> ValidationError(field, firstError.message, value)]
        ELSE [threw |-> FALSE, data |-> result.data]

\* The function returned by validateInput(schema, handler, options) is called:
\* `const validated = validate(...); return handler(validated)` in an async
\* function, so whatever is thrown rejects the returned promise. h is what the
\* handler does when it is called.
ValidatedCall(input, stripUnknown, h) ==
    /\ validation = << >>
    /\ LET validated == Validate(input, stripUnknown)
           call == [input |-> input, stripUnknown |-> stripUnknown]
       IN  validation' =
             IF validated.threw
             THEN <<[call |-> call, pc |-> "done", handlerArgs |-> << >>,
                     outcome |-> [settled |-> "rejected", error |-> validated.error]]>>
             ELSE IF h.kind = "throws"
             THEN <<[call |-> call, pc |-> "done", handlerArgs |-> <<validated.data>>,
                     outcome |-> [settled |-> "rejected", error |-> h.error]]>>
             ELSE IF h.kind = "returns"
             THEN <<[call |-> call, pc |-> "done", handlerArgs |-> <<validated.data>>,
                     outcome |-> [settled |-> "resolved", value |-> h.value]]>>
             ELSE <<[call |-> call, pc |-> "awaiting", handlerArgs |-> <<validated.data>>]>>
    /\ UNCHANGED <<cfgVars, telVars, wrapVars, payVars, exited, sanitized, thrown,
                   health>>

\* The promise the handler returned settles; the call settles with it.
ValidatedHandlerSettles(result) ==
    /\ validation # << >>
    /\ validation[1].pc = "awaiting"
    /\ validation' =
          <<[call |-> validation[1].call, pc |-> "done",
             handlerArgs |-> validation[1].handlerArgs,
             outcome |-> IF result.state = "fulfilled"
                         THEN [settled |-> "resolved", value |-> result.value]
                         ELSE [settled |-> "rejected", error |-> result.error]]>>
    /\ UNCHANGED <<cfgVars, telVars, wrapVars, payVars, exited, sanitized, thrown,
                   health>>

\* No call has been made yet.
InitValidate ==
    /\ validation = << >>
    /\ sanitized = << >>
    /\ thrown = << >>
    /\ health = << >>
    /\ globalConfig = ProductionConfig
    /\ envApiKey = Undefined
    /\ globalTelemetry = "null"
    /\ batchSize = 1
    /\ buffer = << >>
    /\ flushTimer = FALSE
    /\ inflight = << >>
    /\ delivered = << >>
    /\ nextId = 0
    /\ rejection = << >>
    /\ shutdownAt = << >>
    /\ replacedTimers = 0
    /\ exited = FALSE
    /\ WrapIdle
    /\ PayIdle

\* The inputs: query absent, empty, a string, a number; limit absent, below,
\* within and above the range, a string; with an unknown key or without; and an
\* input that is no object.
NextValidate ==
    LET queries == {Str(""), Str("hello"), Num(5)}
        limits == {Num(0), Num(50), Num(101), Str("ten")}
        objects ==
            {f \in UNION {[D -> queries \cup limits \cup {Str("x")}] :
                              D \in SUBSET {"query", "limit", "extra"}} :
                /\ "query" \in DOMAIN f => f["query"] \in queries
                /\ "limit" \in DOMAIN f => f["limit"] \in limits
                /\ "extra" \in DOMAIN f => f["extra"] = Str("x")}
    IN  \/ \E input \in objects \cup {Str("text")} : \E stripUnknown \in BOOLEAN :
           \E h \in HandlerBehaviours : ValidatedCall(input, stripUnknown, h)
        \/ \E r \in HandlerResults : ValidatedHandlerSettles(r)

SpecValidate == InitValidate /\ [][NextValidate]_vars

\* ------------------------------------------------------------------ C31
\* The input passes: an object with a non-empty string query, a limit absent or
\* a number from 1 to 100, and no other key when unknown keys are not stripped.
QueryPasses(input) ==
    /\ "query" \in DOMAIN input
    /\ input.query.type = "string"
    /\ input.query.value # ""
LimitPasses(input) ==
    "limit" \in DOMAIN input =>
        /\ input.limit.type = "number"
        /\ input.limit.num \in 1..100
InputPasses(call) ==
    /\ IsObjectInput(call.input)
    /\ QueryPasses(call.input)
    /\ LimitPasses(call.input)
    /\ ~call.stripUnknown => DOMAIN call.input \subseteq {"query", "limit"}

\* The first field that fails, 'input' standing for the input as a whole.
FirstFailingField(call) ==
    IF ~IsObjectInput(call.input) THEN "input"
    ELSE IF ~QueryPasses(call.input) THEN "query"
    ELSE IF ~LimitPasses(call.input) THEN "limit"
    ELSE "input"

\* C31: the handler is invoked only when validation succeeded, and then exactly
\* once, with the parsed value, defaults applied; when validation fails the call
\* rejects with a ValidationError (-32602) for the first failing field and the
\* handler is never invoked.
C31_HandlerOnlyOnValidInput ==
    validation # << >> =>
        LET v == validation[1]
        IN  IF InputPasses(v.call)
            THEN /\ Len(v.handlerArgs) = 1
                 /\ v.handlerArgs[1].query = v.call.input.query
                 /\ v.handlerArgs[1].limit =
                        IF "limit" \in DOMAIN v.call.input THEN v.call.input.limit
                        ELSE Num(10)
                 /\ DOMAIN v.handlerArgs[1] = {"query", "limit"}
            ELSE /\ v.handlerArgs = << >>
                 /\ v.pc = "done"
                 /\ v.outcome.settled = "rejected"
                 /\ v.outcome.error.class = "ValidationError"
                 /\ v.outcome.error.code = -32602
                 /\ v.outcome.error.data.field = FirstFailingField(v.call)

\* {query: "hello"} was passed: the handler got {query: "hello", limit: 10}.
C31_Witness ==
    /\ validation # << >>
    /\ validation[1].pc = "done"
    /\ DOMAIN validation[1].call.input = {"query"}
    /\ validation[1].call.input.query = Str("hello")
    /\ validation[1].handlerArgs = <<[query |-> Str("hello"), limit |-> Num(10)]>>
    /\ validation[1].outcome.settled = "resolved"

\* ------------------------------------------------------------------ C32
\* C32: at any time at most one periodic flush timer is active in the process:
\* that of the global instance, those of the instances it replaced being stopped.
C32_AtMostOneFlushTimer ==
    replacedTimers + (IF flushTimer THEN 1 ELSE 0) <= 1

\* ------------------------------------------------------------------ C33
\* C33: the process-wide pipeline is created on first use, without initTelemetry:
\* every wrapped invocation with metering enabled that has completed found a
\* pipeline and recorded its one event there.
C33_FirstUseFindsAPipeline ==
    \A c \in 1..MaxCalls :
        (wrapOptions.telemetry /\ calls[c].pc = "done") =>
            /\ globalTelemetry # "null"
            /\ Len(calls[c].tracked) = 1

\* ------------------------------------------------------------------ C34
\* C34: at most one delivery attempt of the Telemetry instance is in flight at
\* any time, whichever of the timer, the batch size, flush() and shutdown()
\* started it.
C34_AtMostOneAttemptInFlight == Len(inflight) <= 1

\* ------------------------------------------------------------------ C35
\* C35: the events in the buffer are always in the order they were tracked in,
\* also after failed flushes put their snapshots back.
C35_BufferInTrackingOrder ==
    \A i, j \in 1..Len(buffer) : i < j => buffer[i].id < buffer[j].id

\* ------------------------------------------------------------------ C36
\* No flush of the instance has failed so far.
NoFlushFailed == rejection = << >>

\* C36 as stated: whenever no delivery attempt is in flight the buffer holds
\* fewer than batchSize events.
C36_IdleBufferBelowBatchSize ==
    inflight = << >> => Len(buffer) < batchSize

\* A step that leaves batchSize events or more in a buffer it changed is the
\* settling of a failed attempt, which puts its snapshot back.
OnlyPutBackFills ==
    (buffer' # buffer /\ Len(buffer') >= batchSize) =>
        /\ Len(inflight') < Len(inflight)
        /\ rejection' # << >>
        /\ nextId' = nextId

\* C36, amended: whenever no delivery attempt is in flight and no flush has
\* failed, the buffer holds fewer than batchSize events; a buffer that tracking
\* brings to batchSize is handed to a flush in that same step, only a failed
\* attempt's put-back leaves batchSize events or more in it.
C36_IdleBufferBelowBatchSizeUnlessPutBack ==
    /\ [](inflight = << >> /\ NoFlushFailed => Len(buffer) < batchSize)
    /\ [][OnlyPutBackFills]_vars

\* Some events were delivered, nothing failed, nothing is in flight, and the
\* buffer is one event short of a batch.
C36_Witness ==
    /\ batchSize > 1
    /\ delivered # << >>
    /\ NoFlushFailed
    /\ inflight = << >>
    /\ Len(buffer) = batchSize - 1

\* ------------------------------------------------------------------ C38
\* The race of invocation c was created, so it observes the timeout promise.
RaceObservesTimer(c) == calls[c].race.state # "none"

\* C38: once the timer of an invocation that delivered its outcome has expired,
\* its rejection was consumed by the race of that invocation, also when the
\* handler threw synchronously: no rejection is left unobserved.
C38_TimerRejectionIsObserved ==
    \A c \in 1..MaxCalls :
        (calls[c].pc = "done" /\ calls[c].timer = "fired") => RaceObservesTimer(c)

\* ------------------------------------------------------------------ C39
\* Invocation c issues a request (check or deduct) in this step.
GateNetworks(c) == Len(gate'[c].fetches) > Len(gate[c].fetches)

\* The SDK mode read by the step is production and a configuration with
\* testMode false is stored.
NetworkingPermitted ==
    /\ ~globalConfig'.demoMode
    /\ ~paymentConfig.null
    /\ ~paymentConfig.testMode

\* initPayment in demo mode stores a configuration with testMode true.
DemoStoresTestMode ==
    (IsDemoMode(globalConfig, envApiKey) /\ paymentConfig' # paymentConfig) =>
        paymentConfig'.testMode

\* Only initPayment replaces the stored configuration.
OnlyInitPaymentStores ==
    paymentConfig' # paymentConfig =>
        \E config \in PaymentConfigChoices : InitPayment(config)

\* C39: the gate issues a request only if at that time the SDK is in production
\* mode and the stored payment configuration has testMode false; initPayment in
\* demo mode stores testMode true, and that configuration stays, a later
\* initOpenConductor notwithstanding, until initPayment is called again.
C39_NetworkOnlyInProductionWithoutTestMode ==
    /\ [][\A c \in 1..MaxGateCalls : GateNetworks(c) => NetworkingPermitted]_vars
    /\ [][DemoStoresTestMode]_vars
    /\ [][OnlyInitPaymentStores]_vars

\* The SDK is in production mode, the configuration initPayment stored in demo
\* mode is still there, and an invocation checked in production mode was let
\* through by its testMode and completed without any request.
C39_Witness ==
    /\ globalConfig.initialized /\ ~globalConfig.demoMode
    /\ paymentConfig = DemoPaymentConfig
    /\ \E c \in 1..MaxGateCalls :
          /\ gate[c].pc = "done"
          /\ gate[c].decision # << >>
          /\ gate[c].decision[1].tier = "test"
          /\ gate[c].fetches = << >>
          /\ gate[c].outcomes = <<[settled |-> "resolved", value |-> "result"]>>

\* ------------------------------------------------------------------ C40
\* What getTelemetry() returns, as far as the model tells instances apart: the
\* kind of the global instance, its batch size and whether its interval runs.
TelemetryInstance == <<globalTelemetry, batchSize, flushTimer>>

\* initTelemetry(config) does not throw: demo mode, or an apiKey was passed.
InitTelemetrySucceeds(config) ==
    globalConfig'.demoMode \/ "apiKey" \in DOMAIN config

\* A successful initTelemetry makes its new instance the global one; a failing
\* one leaves the instance that was there.
InitTelemetryInstalls(config) ==
    IF ~InitTelemetrySucceeds(config)
    THEN TelemetryInstance' = TelemetryInstance /\ replacedTimers' = replacedTimers
    ELSE IF globalConfig'.demoMode
    THEN globalTelemetry' = "DemoTelemetry" /\ ~flushTimer'
    ELSE /\ globalTelemetry' = "Telemetry"
         /\ batchSize' = config.batchSize
         /\ flushTimer'

\* C40: getTelemetry() returns the instance of the most recent successful
\* initTelemetry: only a successful initTelemetry changes the global instance,
\* a failing one and every initOpenConductor, resetConfig, accessor or
\* environment change leave it.
C40_OnlySuccessfulInitReplacesTheInstance ==
    /\ [][TelemetryInstance' # TelemetryInstance =>
            \E config \in TelemetryArguments :
                InitTelemetry(config) /\ InitTelemetrySucceeds(config)]_vars
    /\ [][\A config \in TelemetryArguments :
            InitTelemetry(config) => InitTelemetryInstalls(config)]_vars

\* A Telemetry was replaced by a DemoTelemetry, the SDK was then switched to
\* production mode, the DemoTelemetry is still the global instance, and an
\* initTelemetry() without apiKey, which fails now, would leave it there.
C40_Witness ==
    /\ globalConfig.initialized /\ ~globalConfig.demoMode
    /\ globalTelemetry = "DemoTelemetry"
    /\ replacedTimers = 1
    /\ ENABLED (InitTelemetry([none |-> TRUE]) /\ globalTelemetry' = "DemoTelemetry")

\* ============================================ wrapTool(requirePayment(...)(h))
\* The wrapped handler is the gated tool: invocation c of the wrapper is
\* invocation c of the gate. The gated tool is an async function: it never throws
\* synchronously, the promise it returns settles when the gate is done.
\* How the promise of a finished gated invocation g has settled.
GatedResult(g) ==
    LET o == g.outcomes[Len(g.outcomes)]
    IN  IF o.settled = "resolved" THEN [state |-> "fulfilled", value |-> o.value]
        ELSE [state |-> "rejected", error |-> o.error]

\* The wrapper's record once the gate has moved: the handler's promise settles
\* in the step that finishes the gate, and the race with it if still pending.
GatedSettle(call, before, after) ==
    IF after.pc = "done" /\ before.pc # "done"
    THEN [call EXCEPT !.handler = GatedResult(after),
                      !.race = RaceSettle(@, GatedResult(after)),
                      !.first = IF @ = "none" THEN "handler" ELSE @]
    ELSE call

\* One invocation of the wrapped gated tool, up to the await of the race: the
\* timer is armed, the gated tool called, which runs to its first pending await.
GatedInvoke(c, userId) ==
    /\ calls[c].pc = "idle"
    /\ GateInvokeStep(c, userId)
    /\ calls' = [calls EXCEPT ![c] =
          GatedSettle([@ EXCEPT !.pc = "awaiting", !.timer = "armed",
                                !.handlerRuns = @ + 1,
                                !.handler = [state |-> "pending"],
                                !.race = [state |-> "pending"]],
                      gate[c], gate'[c])]
    /\ UNCHANGED <<envApiKey, telVars, wrapOptions, paymentConfig, requirement,
                   exited, libVars>>

\* The billing check of invocation c settles, before or after the timeout.
GatedCheckSettles(c, response) ==
    /\ CheckSettlesStep(c, response)
    /\ calls' = [calls EXCEPT ![c] = GatedSettle(@, gate[c], gate'[c])]
    /\ UNCHANGED <<cfgVars, telVars, wrapOptions, paymentConfig, requirement,
                   exited, libVars>>

\* The protected handler h of invocation c settles, before or after the timeout.
GatedHandlerSettles(c, ok) ==
    /\ GateHandlerSettlesStep(c, ok)
    /\ calls' = [calls EXCEPT ![c] = GatedSettle(@, gate[c], gate'[c])]
    /\ UNCHANGED <<envApiKey, telVars, wrapOptions, paymentConfig, requirement,
                   exited, libVars>>

\* The deduction of invocation c settles, before or after the timeout.
GatedDeductSettles(c, response) ==
    /\ DeductSettlesStep(c, response)
    /\ calls' = [calls EXCEPT ![c] = GatedSettle(@, gate[c], gate'[c])]
    /\ UNCHANGED <<cfgVars, telVars, wrapOptions, paymentConfig, requirement,
                   exited, libVars>>

\* wrapTool(requirePayment({credits: 5})(h), options) has returned; the SDK is in
\* production mode, initTelemetry and initPayment have been called.
InitGated ==
    /\ globalConfig = ProductionConfig
    /\ envApiKey = Undefined
    /\ globalTelemetry = "Telemetry"
    /\ batchSize = 2
    /\ buffer = << >>
    /\ flushTimer = TRUE
    /\ inflight = << >>
    /\ delivered = << >>
    /\ nextId = 0
    /\ rejection = << >>
    /\ shutdownAt = << >>
    /\ replacedTimers = 0
    /\ exited = FALSE
    /\ LibIdle
    /\ wrapOptions \in {ResolveOptions(o) : o \in OptionChoices}
    /\ calls = [c \in 1..MaxCalls |-> IdleCall]
    /\ paymentConfig \in {ProductionPaymentConfig([apiKey |-> "key"]),
                          ProductionPaymentConfig([apiKey |-> "key", testMode |-> TRUE])}
    /\ requirement = [credits |-> 5]
    /\ gate = [c \in 1..MaxGateCalls |-> IdleGate]

NextGated ==
    \/ \E c \in 1..MaxCalls : \E u \in UserIds : GatedInvoke(c, u)
    \/ \E c \in 1..MaxCalls : \E r \in CheckResponses : GatedCheckSettles(c, r)
    \/ \E c \in 1..MaxCalls : \E ok \in BOOLEAN : GatedHandlerSettles(c, ok)
    \/ \E c \in 1..MaxCalls : \E r \in FetchResponses : GatedDeductSettles(c, r)
    \/ \E c \in 1..MaxCalls : TimerFires(c)
    \/ \E c \in 1..MaxCalls : Continue(c)

SpecGated == InitGated /\ [][NextGated]_vars


\* ------------------------------------------------------------------ C37
\* The timer of invocation c settled the race: it fired while the billing check,
\* h or the deduction was still pending.
TimedOut(c) == calls[c].first = "timer"

\* The caller of a timed-out invocation receives TimeoutError, and with metering
\* enabled one failed metric was recorded for it.
TimedOutDelivers(c) ==
    (TimedOut(c) /\ calls[c].pc = "done") =>
        /\ calls[c].outcomes =
              <<[settled |-> "rejected",
                 error |-> TimeoutError(wrapOptions.name, wrapOptions.timeout)]>>
        /\ wrapOptions.telemetry =>
              /\ Len(calls[c].tracked) = 1
              /\ \E m \in AllMetrics : m.id = calls[c].tracked[1] /\ ~m.success

\* After the timeout the gate goes on: a pending check can still settle, and a
\* pending h can still complete, which issues the deduction.
TimedOutGateGoesOn(c) ==
    /\ (TimedOut(c) /\ gate[c].pc = "checking") =>
          ENABLED (GatedCheckSettles(c, [kind |-> "json",
                                         body |-> [allowed |-> TRUE, credits |-> 7]])
                   /\ gate'[c].pc = "handler")
    /\ (TimedOut(c) /\ gate[c].pc = "handler") =>
          ENABLED (GatedHandlerSettles(c, TRUE) /\ Len(gate'[c].deducts) = 1)

\* Whenever h completes successfully the deduction of the required credits is
\* issued in that step, whatever the wrapper has delivered.
SuccessDeducts(c) ==
    (gate[c].pc = "handler" /\ gate'[c].handler = "fulfilled") =>
        gate'[c].deducts = <<[userId |-> gate[c].userId,
                              credits |-> requirement.credits]>>

\* Once the wrapper has delivered, nothing changes the outcome or the metric of
\* the invocation, and the steps of its gate leave the pipeline alone.
DeliveredIsFinal(c) ==
    calls[c].pc = "done" =>
        /\ calls'[c].outcomes = calls[c].outcomes
        /\ calls'[c].tracked = calls[c].tracked
        /\ gate'[c] # gate[c] =>
              UNCHANGED <<buffer, inflight, delivered, nextId>>

\* C37: for wrapTool(requirePayment({credits: n})(h)), when the timer fires while
\* the check or h is pending the caller receives TimeoutError and one failed
\* metric is recorded; the gated handler keeps running and the deduction of n
\* credits is issued when h completes successfully; the late deduction changes
\* neither the delivered outcome nor the recorded metric.
C37_TimeoutDoesNotStopTheGatedHandler ==
    /\ [](\A c \in 1..MaxCalls : TimedOutDelivers(c) /\ TimedOutGateGoesOn(c))
    /\ [][\A c \in 1..MaxCalls : SuccessDeducts(c) /\ DeliveredIsFinal(c)]_vars

\* The caller received TimeoutError and one failed metric was recorded; h then
\* completed, the deduction was issued and settled.
C37_Witness ==
    \E c \in 1..MaxCalls :
        /\ wrapOptions.telemetry
        /\ TimedOut(c) /\ calls[c].pc = "done"
        /\ calls[c].outcomes[1].error.class = "TimeoutError"
        /\ Len(calls[c].tracked) = 1
        /\ gate[c].pc = "done"
        /\ gate[c].handler = "fulfilled"
        /\ gate[c].fetches = <<"check", "deduct">>
        /\ Len(gate[c].deducts) = 1

====
